---- MODULE Spec2Model ----
(***************************************************************************)
(* ZilKit: layered preset configuration (zilkit/config.py), encoder        *)
(* command synthesis, output naming and frame-pattern resolution           *)
(* (zilkit/core/ffmpeg_ops.py), and the menu entry points that drive them  *)
(* (zilkit/menu/ffmpeg.py).                                                *)
(*                                                                         *)
(* Python values are modelled as follows.  A JSON scalar is a record       *)
(* [t, i, s] (NullV, IntV(n), StrV(x)) so that values of different Python  *)
(* types can be compared.  A dict is a function whose DOMAIN is its key    *)
(* set.  A str that the code takes apart character by character (file      *)
(* names, custom text) is a sequence of one-character strings; Str turns   *)
(* it into the argv token it becomes.                                      *)
(***************************************************************************)
EXTENDS Integers, Sequences, FiniteSets, TLC

VARIABLES
    preset_overrides,   \* Config._config["preset_overrides"]: preset key -> override dict
    global_overrides,   \* Config._config["global_overrides"]: override dict
    ffmpeg_path,        \* Config.get_ffmpeg_path(): "" when no encoder is found/valid
    effective,          \* the last get_effective_preset_settings call and its result
    conv,               \* the last conversion, command build or file naming: the call and its outcome
    directory,          \* the scanned directory: whether it can be listed, and its entries
    found,              \* what find_image_sequences and find_movie_files returned for it
    run,                \* the encoder process of a conversion, its pipes, readers and waiter
    settings_file,      \* config.json as it is on disk
    presets_file,       \* presets.json as it is on disk
    instance,           \* the Config object: whether it is constructed, _config and _presets
    store_op,           \* the last Config call of a caller and how it ended
    batch,              \* a batch encode of the menu: its queue, its position and its tally
    renaming            \* remove_frame_padding: the directory, the files selected and the tally

vars == <<preset_overrides, global_overrides, ffmpeg_path, effective, conv, directory, found, run, settings_file, presets_file, instance, store_op, batch, renaming>>

(***************************************************************************)
(* Python values                                                           *)
(***************************************************************************)
NullV == [t |-> "null", i |-> 0, s |-> ""]
IntV(n) == [t |-> "int", i |-> n, s |-> ""]
StrV(x) == [t |-> "str", i |-> 0, s |-> x]

\* str(v) for a scalar
PyStr(v) == IF v.t = "int" THEN ToString(v.i) ELSE IF v.t = "null" THEN "None" ELSE v.s

\* bool(v) for a scalar: None, 0 and "" are falsy
Truthy(v) == IF v.t = "int" THEN v.i # 0 ELSE IF v.t = "null" THEN FALSE ELSE v.s # ""

EmptyDict == [k \in {} |-> NullV]

\* d.get(k, default)
DictGet(d, k, default) == IF k \in DOMAIN d THEN d[k] ELSE default

(***************************************************************************)
(* The packaged preset catalog (presets.json): preset key -> preset dict.  *)
(***************************************************************************)
Presets ==
    [key \in {"h264-mp4", "prores-4444", "hap"} |->
        CASE key = "h264-mp4" ->
                [f \in {"codec", "display_name", "suffix", "container", "pix_fmt"} |->
                    CASE f = "codec" -> StrV("libx264")
                      [] f = "display_name" -> StrV("H.264 MP4")
                      [] f = "suffix" -> StrV("h264")
                      [] f = "container" -> StrV("mp4")
                      [] f = "pix_fmt" -> StrV("yuv420p")]
          [] key = "prores-4444" ->
                [f \in {"codec", "display_name", "suffix", "container", "pix_fmt",
                        "profile_v", "vendor"} |->
                    CASE f = "codec" -> StrV("prores_ks")
                      [] f = "display_name" -> StrV("ProRes 4444")
                      [] f = "suffix" -> StrV("prores4444")
                      [] f = "container" -> StrV("mov")
                      [] f = "pix_fmt" -> StrV("yuva444p10le")
                      [] f = "profile_v" -> StrV("4")
                      [] f = "vendor" -> StrV("apl0")]
          [] key = "hap" ->
                [f \in {"codec", "display_name", "suffix", "container", "format"} |->
                    CASE f = "codec" -> StrV("hap")
                      [] f = "display_name" -> StrV("HAP")
                      [] f = "suffix" -> StrV("hap")
                      [] f = "container" -> StrV("mov")
                      [] f = "format" -> StrV("hap_q")]]

\* Keys a caller may ask for: the catalog's and one that is not in it.
PresetKeys == DOMAIN Presets \cup {"no-such-preset"}

(***************************************************************************)
(* Config (zilkit/config.py).  `self` is the Config object: a record of    *)
(* the two override maps kept in Config._config.                           *)
(***************************************************************************)
Self == [preset_overrides |-> preset_overrides, global_overrides |-> global_overrides]

\* Config.get_preset: the dict, or None (here: the empty dict, which `not preset` treats alike)
get_preset(preset_key) == DictGet(Presets, preset_key, EmptyDict)

\* Config.get_preset_override: the stored dict, or None (here: the empty dict, as above)
get_preset_override(self, preset_key) == DictGet(self.preset_overrides, preset_key, EmptyDict)

\* Config.get_global_overrides
get_global_overrides(self) == self.global_overrides

\* Faulty variant of ApplyOverrides: a null entry replaces the value below it.
ApplyOverridesNullWins(eff, overrides) ==
    [k \in DOMAIN eff \cup DOMAIN overrides |->
        IF k \in DOMAIN overrides THEN overrides[k] ELSE eff[k]]

\* for key, value in overrides.items(): if value is not None: effective[key] = value
ApplyOverrides(eff, overrides) ==
    [k \in DOMAIN eff \cup {k2 \in DOMAIN overrides : overrides[k2] # NullV} |->
        IF k \in DOMAIN overrides /\ overrides[k] # NullV THEN overrides[k] ELSE eff[k]]

\* Faulty variant of the resolution: global overrides applied to multi-output too.
EffectiveIgnoringMultiFlag(self, preset_key, for_multi_output) ==
    IF get_preset(preset_key) = EmptyDict THEN EmptyDict
    ELSE ApplyOverrides(ApplyOverrides(get_preset(preset_key),
                                       get_preset_override(self, preset_key)),
                        get_global_overrides(self))

\* Config.get_effective_preset_settings
get_effective_preset_settings(self, preset_key, for_multi_output) ==
    LET preset == get_preset(preset_key)
        afterPreset == ApplyOverrides(preset, get_preset_override(self, preset_key))
    IN  IF preset = EmptyDict THEN EmptyDict
        ELSE IF ~for_multi_output
             THEN ApplyOverrides(afterPreset, get_global_overrides(self))
             ELSE afterPreset

(***************************************************************************)
(* Strings taken apart character by character                              *)
(***************************************************************************)
RECURSIVE Str(_)
\* The str a sequence of characters is
Str(cs) == IF cs = <<>> THEN "" ELSE Head(cs) \o Str(Tail(cs))

RECURSIVE JoinWith(_, _)
\* sep.join(parts)
JoinWith(sep, parts) ==
    IF parts = <<>> THEN ""
    ELSE IF Len(parts) = 1 THEN parts[1]
    ELSE parts[1] \o sep \o JoinWith(sep, Tail(parts))

DigitChars == <<"0", "1", "2", "3", "4", "5", "6", "7", "8", "9">>

\* \d
IsDigit(c) == \E d \in 1..10 : DigitChars[d] = c

\* [_\s]
IsUnderscoreOrSpace(c) == c = "_" \/ c = " "

DigitVal(c) == (CHOOSE d \in 1..10 : DigitChars[d] = c) - 1

RECURSIVE ParseInt(_)
\* int(digits)
ParseInt(cs) == IF cs = <<>> THEN 0 ELSE ParseInt(SubSeq(cs, 1, Len(cs) - 1)) * 10 + DigitVal(cs[Len(cs)])

RECURSIVE DecimalChars(_)
\* str(n) for n >= 0, as characters
DecimalChars(n) ==
    IF n < 10 THEN <<DigitChars[n + 1]>>
    ELSE DecimalChars(n \div 10) \o <<DigitChars[(n % 10) + 1]>>

\* name.rfind("."), 1-based; 0 when there is none
RFindDot(name) ==
    IF \E i \in 1..Len(name) : name[i] = "."
    THEN CHOOSE i \in 1..Len(name) : name[i] = "." /\ \A j \in (i + 1)..Len(name) : name[j] # "."
    ELSE 0

\* pathlib: PurePath(name).suffix
PathSuffix(name) ==
    LET i == RFindDot(name)
    IN  IF 1 < i /\ i < Len(name) THEN SubSeq(name, i, Len(name)) ELSE <<>>

\* pathlib: PurePath(name).stem
PathStem(name) ==
    LET i == RFindDot(name)
    IN  IF 1 < i /\ i < Len(name) THEN SubSeq(name, 1, i - 1) ELSE name

\* The matches of re.finditer(r'\d+', s): the maximal digit runs, as <<start, end>>
\* (1-based, inclusive), and the one a caller picks with [-1] or [0].
IsRun(s, a, b) ==
    /\ a <= b
    /\ \A i \in a..b : IsDigit(s[i])
    /\ (a = 1 \/ ~IsDigit(s[a - 1]))
    /\ (b = Len(s) \/ ~IsDigit(s[b + 1]))

DigitRuns(s) == {r \in (1..Len(s)) \X (1..Len(s)) : IsRun(s, r[1], r[2])}

FirstRun(s) == CHOOSE r \in DigitRuns(s) : \A q \in DigitRuns(s) : r[1] <= q[1]

LastRun(s) == CHOOSE r \in DigitRuns(s) : \A q \in DigitRuns(s) : q[1] <= r[1]

\* Where r'[_\s]*\d+$' first matches in s (re.sub takes the leftmost match): the
\* 1-based start, or 0 when it matches nowhere.
MatchesAt(s, i) ==
    \E j \in i..Len(s) :
        /\ \A k \in i..(j - 1) : IsUnderscoreOrSpace(s[k])
        /\ \A k \in j..Len(s) : IsDigit(s[k])

TrailingNumberMatch(s) ==
    IF \E i \in 1..Len(s) : MatchesAt(s, i)
    THEN CHOOSE i \in 1..Len(s) : MatchesAt(s, i) /\ \A h \in 1..(i - 1) : ~MatchesAt(s, h)
    ELSE 0

\* Faulty variants of the base-name derivation: the digits alone are removed;
\* the short-remainder fallback is missing.
BaseNameDigitsOnly(stem) ==
    LET n == Len(stem)
        cut == IF \E i \in 1..n : \A k \in i..n : IsDigit(stem[k])
               THEN CHOOSE i \in 1..n : (\A k \in i..n : IsDigit(stem[k]))
                                        /\ (i = 1 \/ ~IsDigit(stem[i - 1]))
               ELSE n + 1
        base_name == SubSeq(stem, 1, cut - 1)
    IN  IF Len(base_name) < 2 THEN stem ELSE base_name

\* base_name = re.sub(r'[_\s]*\d+$', '', stem); if len(base_name) < 2: base_name = stem
\* (generate_output_filename)
OutputBaseName(stem) ==
    LET m == TrailingNumberMatch(stem)
        base_name == IF m = 0 THEN stem ELSE SubSeq(stem, 1, m - 1)
    IN  IF Len(base_name) < 2 THEN stem ELSE base_name

\* The same two statements in convert_sequence_to_video
LegacyBaseName(stem) ==
    LET m == TrailingNumberMatch(stem)
        base_name == IF m = 0 THEN stem ELSE SubSeq(stem, 1, m - 1)
    IN  IF Len(base_name) < 2 THEN stem ELSE base_name

\* custom_text.replace(".", "")
RemovePeriods(cs) == SelectSeq(cs, LAMBDA c : c # ".")

(***************************************************************************)
(* Image sequences (pyseq.Sequence, as find_image_sequences returns them): *)
(* at least two member file names that differ in exactly one digit run,    *)
(* the frame number, ordered by it.                                        *)
(***************************************************************************)
\* The member after `name` when the digit run r is the frame number: its last digit raised.
NextFrame(name, r) ==
    [i \in 1..Len(name) |-> IF i = r[2] THEN DigitChars[DigitVal(name[i]) + 2] ELSE name[i]]

SequencesOf(names) ==
    UNION {{[members |-> <<n, NextFrame(n, r)>>] : r \in DigitRuns(n)} : n \in names}

\* The digit run of the first member in which the members differ
FrameRun(sequence) ==
    CHOOSE r \in DigitRuns(sequence.members[1]) :
        \E i \in r[1]..r[2] : sequence.members[1][i] # sequence.members[2][i]

\* Sequence.start(): the frame number of the first member
SequenceStart(sequence) ==
    LET r == FrameRun(sequence) IN ParseInt(SubSeq(sequence.members[1], r[1], r[2]))

\* Sequence.format(): "<count> <head>%0<W>d<tail> [<first>-<last>]", of which the code
\* takes re.search(r'(\S+%0?\d+d\S+)'): the non-blank text around the placeholder,
\* <<>> when there is none on either side.
FormatPatternMatch(sequence) ==
    LET name == sequence.members[1]
        r == FrameRun(sequence)
        n == Len(name)
        a == CHOOSE i \in 1..r[1] : (\A k \in i..(r[1] - 1) : name[k] # " ")
                                     /\ (i = 1 \/ name[i - 1] = " ")
        b == CHOOSE j \in r[2]..n : (\A k \in (r[2] + 1)..j : name[k] # " ")
                                     /\ (j = n \/ name[j + 1] = " ")
    IN  IF a = r[1] \/ b = r[2] THEN <<>>
        ELSE SubSeq(name, a, r[1] - 1) \o <<"%", "0">> \o DecimalChars(r[2] - r[1] + 1)
             \o <<"d">> \o SubSeq(name, r[2] + 1, b)

(***************************************************************************)
(* Directory scans (zilkit/core/ffmpeg_ops.py)                             *)
(***************************************************************************)
EXCLUDED_EXTENSIONS == {".exr", ".mp4", ".mov", ".avi", ".mkv", ".webm", ".flv", ".wmv", ".m4v"}

MOVIE_EXTENSIONS == {".mp4", ".mov", ".avi", ".mkv", ".webm", ".flv", ".wmv", ".m4v", ".mpg", ".mpeg", ".m2v", ".mxf"}

UpperCase == <<"A", "B", "C", "D", "E", "F", "G", "H", "I", "J", "K", "L", "M", "N", "O", "P", "Q", "R", "S", "T", "U", "V", "W", "X", "Y", "Z">>

LowerCase == <<"a", "b", "c", "d", "e", "f", "g", "h", "i", "j", "k", "l", "m", "n", "o", "p", "q", "r", "s", "t", "u", "v", "w", "x", "y", "z">>

\* str.lower()
Lower(cs) ==
    [i \in 1..Len(cs) |->
        IF \E k \in 1..26 : UpperCase[k] = cs[i]
        THEN LowerCase[CHOOSE k \in 1..26 : UpperCase[k] = cs[i]]
        ELSE cs[i]]

\* A directory: whether listing it succeeds, and for each name in it what a stat of
\* the entry gives: a regular file ("file"), anything else, a directory or a broken
\* link ("dir"), or an OSError that Path.is_file() does not swallow ("fault").
EmptyDirectory == [listable |-> TRUE, entries |-> <<>>]

NoScan == [sequences |-> [done |-> FALSE], movies |-> [done |-> FALSE]]

\* Two names pyseq puts in one sequence: equal but for the digits of a frame number
SameSequence(a, b) ==
    /\ Len(a) = Len(b)
    /\ \A i \in 1..Len(a) : a[i] # b[i] => (IsDigit(a[i]) /\ IsDigit(b[i]))

RECURSIVE ByFrame(_)
\* The members of one group in increasing frame order
ByFrame(names) ==
    IF names = {} THEN <<>>
    ELSE LET first == CHOOSE n \in names : \A o \in names : ParseInt(SelectSeq(n, IsDigit)) <= ParseInt(SelectSeq(o, IsDigit))
         IN  <<first>> \o ByFrame(names \ {first})

\* pyseq.get_sequences(str(directory)): every name of the listing in exactly one
\* Sequence, a name that groups with no other in a Sequence of its own
get_sequences(names) ==
    {[members |-> ByFrame({b \in names : SameSequence(a, b)})] : a \in names}

RECURSIVE Orders(_)
\* The orders in which a listing can hand out its elements
Orders(S) ==
    IF S = {} THEN {<<>>}
    ELSE UNION {{<<x>> \o rest : rest \in Orders(S \ {x})} : x \in S}

\* seq[0] suffix, lowered, is in EXCLUDED_EXTENSIONS
ExcludedExtension(seq) == Str(Lower(PathSuffix(seq.members[1]))) \in EXCLUDED_EXTENSIONS

\* The first item of seq that is_file() does not accept, 0 when all are files
FirstNonFileFirstItemOnly(dir, seq) ==
    IF dir.entries[Str(seq.members[1])] # "file" THEN 1 ELSE 0

FirstNonFile(dir, seq) ==
    IF \A i \in 1..Len(seq.members) : dir.entries[Str(seq.members[i])] = "file" THEN 0
    ELSE CHOOSE i \in 1..Len(seq.members) :
            /\ dir.entries[Str(seq.members[i])] # "file"
            /\ \A k \in 1..(i - 1) : dir.entries[Str(seq.members[k])] = "file"

\* len(seq) > 1
MultipleFramesOrOne(seq) == Len(seq.members) >= 1

MultipleFrames(seq) == Len(seq.members) > 1

RECURSIVE ScanSequences(_, _, _)
\* The loop over all_sequences: skip excluded extensions, skip a group with an item
\* that is not a file, keep groups of more than one frame; an exception of is_file()
\* leaves the loop for the outer handler, which returns what was appended so far.
ScanSequences(dir, all_sequences, sequences) ==
    IF all_sequences = <<>> THEN sequences
    ELSE LET seq == Head(all_sequences)
             bad == FirstNonFile(dir, seq)
         IN  IF ExcludedExtension(seq) THEN ScanSequences(dir, Tail(all_sequences), sequences)
             ELSE IF bad # 0 /\ dir.entries[Str(seq.members[bad])] = "fault" THEN sequences
             ELSE IF bad # 0 THEN ScanSequences(dir, Tail(all_sequences), sequences)
             ELSE IF MultipleFrames(seq) THEN ScanSequences(dir, Tail(all_sequences), Append(sequences, seq))
             ELSE ScanSequences(dir, Tail(all_sequences), sequences)

\* find_image_sequences(directory), pyseq handing out its groups in the given order
find_image_sequences(dir, all_sequences) ==
    IF ~dir.listable THEN <<>> ELSE ScanSequences(dir, all_sequences, <<>>)

RECURSIVE ScanMovies(_, _, _)
\* The loop over directory.iterdir()
ScanMovies(dir, listing, movies) ==
    IF listing = <<>> THEN movies
    ELSE LET file_path == Head(listing)
         IN  IF dir.entries[file_path] = "fault" THEN movies
             ELSE IF dir.entries[file_path] = "file" /\ Str(Lower(PathSuffix(file_path))) \in MOVIE_EXTENSIONS
                  THEN ScanMovies(dir, Tail(listing), Append(movies, file_path))
             ELSE ScanMovies(dir, Tail(listing), movies)

\* find_movie_files(directory), iterdir() handing out the entries in the given order
find_movie_files(dir, listing) ==
    IF ~dir.listable THEN <<>> ELSE ScanMovies(dir, listing, <<>>)

(***************************************************************************)
(* Output naming (zilkit/core/ffmpeg_ops.py)                               *)
(***************************************************************************)
\* The directory a scan ran in
SeqDir == "/shots"

\* output_dir / name
PathJoin(dir, name) == dir \o "/" \o name

\* Faulty variant of the file-name assembly: empty parts are joined in as well.
FileNameKeepingEmptyParts(base_name, preset, custom_text, user_initials) ==
    JoinWith("_", <<Str(base_name), PyStr(DictGet(preset, "suffix", StrV(""))),
                    Str(RemovePeriods(custom_text)), user_initials>>)
    \o "." \o PyStr(DictGet(preset, "container", StrV("mp4")))

\* The file-name assembly shared, statement for statement, by
\* generate_output_filename and generate_movie_output_filename
OutputFileName(base_name, preset, custom_text, user_initials) ==
    LET preset_suffix == DictGet(preset, "suffix", StrV(""))
        container == DictGet(preset, "container", StrV("mp4"))
        custom_text_clean == RemovePeriods(custom_text)
        parts == <<Str(base_name)>>
                 \o (IF Truthy(preset_suffix) THEN <<PyStr(preset_suffix)>> ELSE <<>>)
                 \o (IF custom_text # <<>> /\ custom_text_clean # <<>>
                     THEN <<Str(custom_text_clean)>> ELSE <<>>)
                 \o (IF user_initials # "" THEN <<user_initials>> ELSE <<>>)
    IN  JoinWith("_", parts) \o "." \o PyStr(container)

\* generate_output_filename (output_dir = None, sequence_directory given)
generate_output_filename(sequence, preset, custom_text, user_initials) ==
    PathJoin(SeqDir, OutputFileName(OutputBaseName(PathStem(sequence.members[1])),
                                    preset, custom_text, user_initials))

\* generate_movie_output_filename (output_dir = None)
generate_movie_output_filename(movie, preset, custom_text, user_initials) ==
    PathJoin(SeqDir, OutputFileName(PathStem(movie), preset, custom_text, user_initials))

(***************************************************************************)
(* Encoder command synthesis (zilkit/core/ffmpeg_ops.py)                   *)
(***************************************************************************)
FloatV(x) == [t |-> "float", i |-> 0, s |-> x]

\* A function's outcome: the argv it returns, or the exception it raises
Return(cmd) == [ok |-> TRUE, cmd |-> cmd, exc |-> "", msg |-> ""]

Raise(exc, msg) == [ok |-> FALSE, cmd |-> <<>>, exc |-> exc, msg |-> msg]

ZscaleFilter ==
    "zscale=rangein=full:primariesin=bt709:transferin=iec61966-2-1:matrixin=bt709:"
    \o "range=tv:primaries=bt709:transfer=bt709:matrix=bt709"

ScaleFilter(resolution_scale) ==
    "scale=iw*" \o PyStr(resolution_scale) \o ":ih*" \o PyStr(resolution_scale)

\* build_ffmpeg_command
build_ffmpeg_command(input_pattern, output_path, start_number, resolution_scale, crf, preset, pixel_format, framerate) ==
    LET filters == (IF resolution_scale # FloatV("1.0")
                    THEN <<ScaleFilter(resolution_scale)>> ELSE <<>>)
                   \o <<ZscaleFilter, "format=" \o pixel_format>>
    IN  IF ffmpeg_path = "" THEN Raise("RuntimeError", "FFmpeg not available")
        ELSE Return(
            <<ffmpeg_path, "-y">>
            \o (IF Truthy(framerate) THEN <<"-framerate", PyStr(framerate)>> ELSE <<>>)
            \o <<"-f", "image2", "-start_number", PyStr(start_number), "-i", input_pattern>>
            \o <<"-vf", JoinWith(",", filters)>>
            \o (IF Truthy(framerate) THEN <<"-r", PyStr(framerate)>> ELSE <<>>)
            \o <<"-c:v", "libx264", "-crf", PyStr(crf), "-preset", preset,
                 "-profile:v", "high", "-level", "4.2", "-pix_fmt", pixel_format,
                 "-movflags", "+faststart">>
            \o <<output_path>>)

\* Faulty variant of the filter chain: the colour filters are applied to hap as well.
PresetFiltersColourAlways(preset, resolution_scale) ==
    (IF resolution_scale # FloatV("1.0") THEN <<ScaleFilter(resolution_scale)>> ELSE <<>>)
    \o <<ZscaleFilter, "format=" \o PyStr(DictGet(preset, "pix_fmt", StrV("yuv420p")))>>

\* The filter chain and codec block common to the two preset builders
PresetFilters(preset, resolution_scale) ==
    (IF resolution_scale # FloatV("1.0") THEN <<ScaleFilter(resolution_scale)>> ELSE <<>>)
    \o (IF DictGet(preset, "codec", NullV) # StrV("hap")
        THEN <<ZscaleFilter,
               "format=" \o PyStr(DictGet(preset, "pix_fmt", StrV("yuv420p")))>>
        ELSE <<>>)

\* Faulty variant of the codec dispatch: an unknown codec falls back to the H.264 block.
CodecBlockWithFallback(preset, hap_chunk_count) ==
    LET codec == DictGet(preset, "codec", NullV)
        pixel_format == PyStr(DictGet(preset, "pix_fmt", StrV("yuv420p")))
    IN  IF codec = StrV("prores_ks")
        THEN Return(<<"-c:v", "prores_ks",
                      "-profile:v", PyStr(DictGet(preset, "profile_v", NullV)),
                      "-vendor", PyStr(DictGet(preset, "vendor", StrV("apl0"))),
                      "-pix_fmt", pixel_format>>)
        ELSE IF codec = StrV("hap")
        THEN Return(<<"-c:v", "hap", "-format", PyStr(DictGet(preset, "format", StrV("hap"))),
                      "-chunks", PyStr(hap_chunk_count)>>)
        ELSE Return(<<"-c:v", "libx264", "-crf", "23", "-preset", "medium",
                      "-profile:v", "high", "-level", "4.2", "-pix_fmt", pixel_format,
                      "-movflags", "+faststart">>)

\* if codec == "libx264": ... elif "prores_ks": ... elif "hap": ... else: raise ValueError
CodecBlock(preset, hap_chunk_count) ==
    LET codec == DictGet(preset, "codec", NullV)
        pixel_format == PyStr(DictGet(preset, "pix_fmt", StrV("yuv420p")))
    IN  IF codec = StrV("libx264")
        THEN Return(<<"-c:v", "libx264", "-crf", "23", "-preset", "medium",
                      "-profile:v", "high", "-level", "4.2", "-pix_fmt", pixel_format,
                      "-movflags", "+faststart">>)
        ELSE IF codec = StrV("prores_ks")
        THEN Return(<<"-c:v", "prores_ks",
                      "-profile:v", PyStr(DictGet(preset, "profile_v", NullV)),
                      "-vendor", PyStr(DictGet(preset, "vendor", StrV("apl0"))),
                      "-pix_fmt", pixel_format>>)
        ELSE IF codec = StrV("hap")
        THEN Return(<<"-c:v", "hap", "-format", PyStr(DictGet(preset, "format", StrV("hap"))),
                      "-chunks", PyStr(hap_chunk_count)>>)
        ELSE Raise("ValueError", "Unsupported codec: " \o PyStr(codec))

\* Faulty variant of the input arguments: the start number follows the input.
InputArgsStartAfterInput(framerate, start_number, input_pattern) ==
    (IF Truthy(framerate) THEN <<"-framerate", PyStr(framerate)>> ELSE <<>>)
    \o <<"-f", "image2", "-i", input_pattern, "-start_number", PyStr(start_number)>>

\* if framerate: cmd.extend(["-framerate", ...]); cmd.extend(["-f", "image2", ...])
InputArgs(framerate, start_number, input_pattern) ==
    (IF Truthy(framerate) THEN <<"-framerate", PyStr(framerate)>> ELSE <<>>)
    \o <<"-f", "image2", "-start_number", PyStr(start_number), "-i", input_pattern>>

\* build_ffmpeg_command_from_preset
build_ffmpeg_command_from_preset(input_pattern, output_path, preset, start_number, resolution_scale, framerate, hap_chunk_count) ==
    LET codec == DictGet(preset, "codec", NullV)
        rs == IF resolution_scale = NullV THEN FloatV("1.0") ELSE resolution_scale
        fr == IF framerate = NullV THEN IntV(30) ELSE framerate
        filters == PresetFilters(preset, rs)
        block == CodecBlock(preset, hap_chunk_count)
    IN  IF ffmpeg_path = "" THEN Raise("RuntimeError", "FFmpeg not available")
        ELSE IF ~Truthy(codec) THEN Raise("ValueError", "Preset missing 'codec' field")
        ELSE IF ~block.ok THEN block
        ELSE Return(
            <<ffmpeg_path, "-y">>
            \o InputArgs(fr, start_number, input_pattern)
            \o (IF filters # <<>> THEN <<"-vf", JoinWith(",", filters)>> ELSE <<>>)
            \o (IF Truthy(fr) THEN <<"-r", PyStr(fr)>> ELSE <<>>)
            \o block.cmd
            \o <<output_path>>)

\* build_ffmpeg_command_from_preset_for_movie
build_ffmpeg_command_from_preset_for_movie(input_movie, output_path, preset, resolution_scale, framerate, hap_chunk_count) ==
    LET codec == DictGet(preset, "codec", NullV)
        rs == IF resolution_scale = NullV THEN FloatV("1.0") ELSE resolution_scale
        filters == PresetFilters(preset, rs)
        block == CodecBlock(preset, hap_chunk_count)
    IN  IF ffmpeg_path = "" THEN Raise("RuntimeError", "FFmpeg not available")
        ELSE IF ~Truthy(codec) THEN Raise("ValueError", "Preset missing 'codec' field")
        ELSE IF ~block.ok THEN block
        ELSE Return(
            <<ffmpeg_path, "-y", "-i", input_movie>>
            \o (IF filters # <<>> THEN <<"-vf", JoinWith(",", filters)>> ELSE <<>>)
            \o (IF Truthy(framerate) THEN <<"-r", PyStr(framerate)>> ELSE <<>>)
            \o block.cmd
            \o <<"-c:a", "copy">>
            \o <<output_path>>)

(***************************************************************************)
(* Conversions, up to the launch of the encoder process.  The outcome is   *)
(* either (False, message) before any process exists, or the argv handed   *)
(* to subprocess.Popen together with the names resolved on the way.        *)
(***************************************************************************)
Failed(message) ==
    [status |-> "failed", message |-> message, cmd |-> <<>>, output_path |-> "",
     pattern |-> <<>>, start_number |-> 0, first_frame |-> <<>>]

Launched(cmd, output_path, pattern, start_number, first_frame) ==
    [status |-> "launched", message |-> "", cmd |-> cmd, output_path |-> output_path,
     pattern |-> pattern, start_number |-> start_number, first_frame |-> first_frame]

\* Methods 1-3 of convert_sequence_with_preset: the first member if it exists, else the
\* first member (of the first 20) that does; 0 when none does.
LocateFirstFrame(sequence, existing) ==
    IF 1 \in existing THEN 1
    ELSE IF \E i \in 1..Len(sequence.members) : i \in existing
    THEN CHOOSE i \in 1..Len(sequence.members) :
            i \in existing /\ \A j \in 1..(i - 1) : j \notin existing
    ELSE 0

\* Faulty variant of the pattern synthesis: the first digit run is replaced.
PatternStemFirstRun(stem) ==
    LET first_match == FirstRun(stem)
    IN  SubSeq(stem, 1, first_match[1] - 1)
        \o <<"%", "0">> \o DecimalChars(first_match[2] - first_match[1] + 1) \o <<"d">>
        \o SubSeq(stem, first_match[2] + 1, Len(stem))

\* pattern_stem = stem[:last_match.start()] + f'%0{frame_width}d' + stem[last_match.end():]
PatternStem(stem) ==
    LET last_match == LastRun(stem)
        frame_width == last_match[2] - last_match[1] + 1
    IN  SubSeq(stem, 1, last_match[1] - 1)
        \o <<"%", "0">> \o DecimalChars(frame_width) \o <<"d">>
        \o SubSeq(stem, last_match[2] + 1, Len(stem))

\* convert_sequence_with_preset, to the Popen call.  `existing` are the members that
\* exist on disk; sequence_directory is "" for None (the members are bare file names).
convert_sequence_with_preset(sequence, existing, preset_key, sequence_directory, resolution_scale, framerate, custom_text, user_initials, hap_chunk_count) ==
    LET preset == get_preset(preset_key)
        output_path == generate_output_filename(sequence, preset, custom_text, user_initials)
        located == LocateFirstFrame(sequence, existing)
        actual_filename == sequence.members[located]
        stem == PathStem(actual_filename)
        suffix == PathSuffix(actual_filename)
        pattern == PatternStem(stem) \o suffix
        start_number == SequenceStart(sequence)
        built == build_ffmpeg_command_from_preset(
                    PathJoin(SeqDir, Str(pattern)), output_path, preset, IntV(start_number),
                    resolution_scale, framerate, hap_chunk_count)
    IN  IF preset = EmptyDict THEN Failed("Preset not found: " \o preset_key)
        ELSE IF sequence_directory = ""
        THEN Failed("Error converting sequence: sequence_directory must be provided "
                    \o "when sequence paths are relative")
        ELSE IF located = 0 THEN Failed("Could not locate first frame file for sequence")
        ELSE IF DigitRuns(stem) = {}
        THEN Failed("Could not extract frame number from filename: " \o Str(actual_filename))
        ELSE IF ~built.ok THEN Failed("Error converting sequence: " \o built.msg)
        ELSE Launched(built.cmd, output_path, pattern, start_number, sequence.members[1])

\* convert_movie_with_preset, to the Popen call
convert_movie_with_preset(movie, movie_exists, preset_key, resolution_scale, framerate, custom_text, user_initials, hap_chunk_count) ==
    LET preset == get_preset(preset_key)
        output_path == generate_movie_output_filename(movie, preset, custom_text,
                                                      user_initials)
        built == build_ffmpeg_command_from_preset_for_movie(
                    PathJoin(SeqDir, Str(movie)), output_path, preset,
                    resolution_scale, framerate, hap_chunk_count)
    IN  IF preset = EmptyDict THEN Failed("Preset not found: " \o preset_key)
        ELSE IF ~built.ok THEN Failed("Error converting movie: " \o built.msg)
        ELSE IF ~movie_exists
        THEN Failed("Movie file does not exist: " \o PathJoin(SeqDir, Str(movie)))
        ELSE Launched(built.cmd, output_path, <<>>, 0, movie)

\* The input pattern of convert_sequence_to_video: the match in Sequence.format(), else
\* the last digit run of the stem replaced, else the default "frame_%04d".
LegacyPattern(sequence) ==
    LET name == sequence.members[1]
        stem == PathStem(name)
        suffix == PathSuffix(name)
        pattern_match == FormatPatternMatch(sequence)
    IN  IF pattern_match # <<>> THEN pattern_match
        ELSE IF DigitRuns(stem) # {} THEN PatternStem(stem) \o suffix
        ELSE <<"f", "r", "a", "m", "e", "_", "%", "0", "4", "d">> \o suffix

\* convert_sequence_to_video, to the Popen call (output_dir = None)
convert_sequence_to_video(sequence, existing, sequence_directory, resolution_scale, crf, preset, pixel_format, framerate) ==
    LET stem == PathStem(sequence.members[1])
        output_path == PathJoin(SeqDir, Str(LegacyBaseName(stem)) \o ".mp4")
        pattern == LegacyPattern(sequence)
        start_number == SequenceStart(sequence)
        built == build_ffmpeg_command(PathJoin(SeqDir, Str(pattern)), output_path,
                                      IntV(start_number), resolution_scale, crf, preset,
                                      pixel_format, framerate)
    IN  IF sequence_directory = ""
        THEN Failed("Error converting sequence: sequence_directory must be provided "
                    \o "when sequence paths are relative")
        ELSE IF ~built.ok THEN Failed("Error converting sequence: " \o built.msg)
        ELSE IF 1 \notin existing
        THEN Failed("First frame does not exist: "
                    \o PathJoin(SeqDir, Str(sequence.members[1])))
        ELSE Launched(built.cmd, output_path, pattern, start_number, sequence.members[1])

(***************************************************************************)
(* Inputs of the configuration actions                                     *)
(***************************************************************************)
\* Setting names an override dict may carry, and the values tried for each.
OverrideKeys == {"crf", "pix_fmt"}

OverrideValues(k) ==
    IF k = "crf" THEN {NullV, IntV(18), IntV(20)} ELSE {NullV, StrV("yuv422p")}

OverrideDicts ==
    UNION { {d \in [D -> UNION {OverrideValues(k) : k \in OverrideKeys}] :
                \A k \in D : d[k] \in OverrideValues(k)} : D \in SUBSET OverrideKeys }

\* Presets for which an override dict is stored.
OverridablePresets == {"h264-mp4", "hap"}

NoCall == [called |-> FALSE, preset_key |-> "", for_multi_output |-> FALSE,
           result |-> EmptyDict]

NoConv == [called |-> FALSE]

(***************************************************************************)
(* Configuration actions.  A resolved dict is a value computed from the    *)
(* store as it was; `effective` (and `conv`) hold the last one computed     *)
(* from the current store and are dropped when the store changes.          *)
(***************************************************************************)
\* Config.set_preset_override
set_preset_override(preset_key, overrides) ==
    /\ preset_overrides' =
          [k \in DOMAIN preset_overrides \cup {preset_key} |->
              IF k = preset_key THEN overrides ELSE preset_overrides[k]]
    /\ effective' = NoCall
    /\ conv' = NoConv
    /\ UNCHANGED <<global_overrides, ffmpeg_path, directory, found, run, settings_file, presets_file, instance, store_op, batch, renaming>>

\* Config.clear_preset_override
clear_preset_override(preset_key) ==
    /\ preset_key \in DOMAIN preset_overrides
    /\ preset_overrides' =
          [k \in DOMAIN preset_overrides \ {preset_key} |-> preset_overrides[k]]
    /\ effective' = NoCall
    /\ conv' = NoConv
    /\ UNCHANGED <<global_overrides, ffmpeg_path, directory, found, run, settings_file, presets_file, instance, store_op, batch, renaming>>

\* Config.set_global_overrides
set_global_overrides(overrides) ==
    /\ global_overrides' = overrides
    /\ effective' = NoCall
    /\ conv' = NoConv
    /\ UNCHANGED <<preset_overrides, ffmpeg_path, directory, found, run, settings_file, presets_file, instance, store_op, batch, renaming>>

\* Config.clear_global_overrides
clear_global_overrides ==
    /\ global_overrides # EmptyDict
    /\ global_overrides' = EmptyDict
    /\ effective' = NoCall
    /\ conv' = NoConv
    /\ UNCHANGED <<preset_overrides, ffmpeg_path, directory, found, run, settings_file, presets_file, instance, store_op, batch, renaming>>

\* A call of Config.get_effective_preset_settings
GetEffective(preset_key, for_multi_output) ==
    /\ effective' = [called |-> TRUE, preset_key |-> preset_key,
                     for_multi_output |-> for_multi_output,
                     result |-> get_effective_preset_settings(Self, preset_key,
                                                              for_multi_output)]
    /\ UNCHANGED <<preset_overrides, global_overrides, ffmpeg_path, conv, directory, found, run, settings_file, presets_file, instance, store_op, batch, renaming>>

SetPresetOverride(presets, dicts) == \E p \in presets, o \in dicts : set_preset_override(p, o)

ClearPresetOverride(presets) == \E p \in presets : clear_preset_override(p)

SetGlobalOverrides(dicts) == \E o \in dicts : set_global_overrides(o)

ClearGlobalOverrides == clear_global_overrides

ResolveEffective == \E p \in PresetKeys, m \in BOOLEAN : GetEffective(p, m)

\* Config.__init__ on an empty settings file; the encoder is found on PATH or not
(***************************************************************************)
(* The Config object and its two files (zilkit/config.py)                  *)
(***************************************************************************)
\* A file on disk: missing; holding a JSON object ("object", with the object); holding
\* valid JSON that is not an object ("array"); holding text that is not JSON
\* ("garbled"); holding bytes that are not UTF-8 ("bad_utf8"); or one that open()
\* refuses ("unreadable").
NoFile == [kind |-> "missing", data |-> EmptyDict]

ObjectFile(data) == [kind |-> "object", data |-> data]

\* presets.json: {"presets": {...}}
CatalogFile(presets) == [kind |-> "object", data |-> presets]

BrokenFile(kind) == [kind |-> kind, data |-> EmptyDict]

\* Config._config is a dict, or whatever else json.load returned
DictConfig(d) == [t |-> "dict", d |-> d]

ListConfig == [t |-> "list", d |-> EmptyDict]

\* The Config object after __init__
Constructed(config, presets) == [made |-> TRUE, _config |-> DictConfig(config), _presets |-> presets]

\* _config_instance is None
NoInstance == [made |-> FALSE]

NoStoreOp == [op |-> "none"]

NoBatch == [phase |-> "none"]

NoRenaming == [phase |-> "none"]

\* json.dump then json.load of one settings value: a number, a string or null comes
\* back as it went
JsonRoundTrip(v) ==
    CASE v.t = "int" -> IntV(v.i)
      [] v.t = "str" -> StrV(v.s)
      [] OTHER -> v

\* A set() that changed the object in memory only
SavedNothing(file, config, outcome) == file

\* What open(config_file, "w") and json.dump leave on disk: the object when the write
\* goes through ("ok"), the file as it was when open() fails ("denied"), a cut-off text
\* when the device fails in the middle ("partial"). IOError is caught by save().
Saved(file, config, outcome) ==
    CASE outcome = "ok" -> ObjectFile([k \in DOMAIN config |-> JsonRoundTrip(config[k])])
      [] outcome = "partial" -> BrokenFile("garbled")
      [] OTHER -> file

\* Config.load: the object of the file, {} for a missing, unreadable or undecodable
\* file; a UnicodeDecodeError is neither a JSONDecodeError nor an IOError
Load(file) ==
    CASE file.kind = "object" -> [raised |-> "", _config |-> DictConfig(file.data)]
      [] file.kind = "array" -> [raised |-> "", _config |-> ListConfig]
      [] file.kind = "bad_utf8" -> [raised |-> "UnicodeDecodeError", _config |-> DictConfig(EmptyDict)]
      [] OTHER -> [raised |-> "", _config |-> DictConfig(EmptyDict)]

\* Config.get(key, default)
Get(config, key, default) ==
    IF config.t # "dict" THEN [raised |-> "AttributeError", value |-> NullV]
    ELSE [raised |-> "", value |-> DictGet(config.d, key, default)]

\* self._config[key] = value
Assign(config, key, value) ==
    [k \in DOMAIN config \cup {key} |-> IF k = key THEN value ELSE config[k]]

\* Config.__init__(config_file): load(), then load_presets(), which stores the default
\* preset "h264-mp4" when none is set and the catalog has it. The result: the exception
\* that left the constructor if one did, the object, and the settings file afterwards.
Construct(file, catalog, outcome) ==
    LET loaded == Load(file)
        default_preset == Get(loaded._config, "default_preset", NullV)
        stored == Assign(loaded._config.d, "default_preset", StrV("h264-mp4"))
    IN  IF loaded.raised # ""
        THEN [raised |-> loaded.raised, instance |-> NoInstance, file |-> file]
        ELSE IF catalog.kind = "bad_utf8"
        THEN [raised |-> "UnicodeDecodeError", instance |-> NoInstance, file |-> file]
        ELSE IF catalog.kind = "array"
        THEN [raised |-> "AttributeError", instance |-> NoInstance, file |-> file]
        ELSE IF catalog.kind # "object"
        THEN [raised |-> "", instance |-> [made |-> TRUE, _config |-> loaded._config, _presets |-> EmptyDict], file |-> file]
        ELSE IF default_preset.raised # ""
        THEN [raised |-> default_preset.raised, instance |-> NoInstance, file |-> file]
        ELSE IF ~Truthy(default_preset.value) /\ "h264-mp4" \in DOMAIN catalog.data
        THEN [raised |-> "", instance |-> Constructed(stored, catalog.data), file |-> Saved(file, stored, outcome)]
        ELSE [raised |-> "", instance |-> [made |-> TRUE, _config |-> loaded._config, _presets |-> catalog.data], file |-> file]

\* Config.set(key, value): the assignment, then save()
Set(self, file, key, value, outcome) ==
    IF self._config.t # "dict"
    THEN [raised |-> "TypeError", instance |-> self, file |-> file]
    ELSE LET config == Assign(self._config.d, key, value)
         IN  [raised |-> "", instance |-> [self EXCEPT !._config = DictConfig(config)], file |-> Saved(file, config, outcome)]

(***************************************************************************)
(* The encoder process and its output (zilkit/core/ffmpeg_ops.py)          *)
(***************************************************************************)
\* error_msg is "\n".join(all_output[-20:]) and the message carries error_msg[:200]
TailLines == 20

MessageCut == 200

ProgressKeywords == {<<"f", "r", "a", "m", "e", "=">>, <<"f", "p", "s", "=">>, <<"b", "i", "t", "r", "a", "t", "e", "=">>, <<"t", "i", "m", "e", "=">>, <<"s", "p", "e", "e", "d", "=">>}

\* str.rstrip(): the line without its trailing white space
rstrip(line) ==
    IF \A i \in 1..Len(line) : line[i] = " " THEN <<>>
    ELSE SubSeq(line, 1, CHOOSE j \in 1..Len(line) : line[j] # " " /\ \A k \in (j + 1)..Len(line) : line[k] = " ")

\* sub in s
Contains(s, sub) ==
    \E i \in 1..(Len(s) - Len(sub) + 1) : SubSeq(s, i, i + Len(sub) - 1) = sub

\* any(keyword in line.lower() for keyword in [...])
is_progress(line) == \E keyword \in ProgressKeywords : Contains(Lower(line), keyword)

\* lines[-20:]
LastLines(lines) ==
    IF Len(lines) <= TailLines THEN lines ELSE SubSeq(lines, Len(lines) - TailLines + 1, Len(lines))

RECURSIVE JoinLines(_)
\* "\n".join(lines)
JoinLines(lines) ==
    IF lines = <<>> THEN <<>>
    ELSE IF Len(lines) = 1 THEN lines[1]
    ELSE lines[1] \o <<"\n">> \o JoinLines(Tail(lines))

\* s[:200]
Cut(s) == IF Len(s) <= MessageCut THEN s ELSE SubSeq(s, 1, MessageCut)

\* The body of read_stdout's loop for one line: the list after it
StdoutKeeps(output_lines, line) ==
    IF rstrip(line) = <<>> THEN output_lines ELSE Append(output_lines, rstrip(line))

\* The body of read_stderr's loop for one line: the list and last_was_progress after it
StderrKeeps(stderr_lines, last_was_progress, line) ==
    IF rstrip(line) = <<>> THEN [stderr_lines |-> stderr_lines, last_was_progress |-> last_was_progress]
    ELSE [stderr_lines |-> Append(stderr_lines, rstrip(line)), last_was_progress |-> is_progress(rstrip(line))]

\* The lines the failure message is made from
FailureLines(fn, stderr_lines, output_lines) ==
    IF fn = "convert_sequence_to_video" THEN stderr_lines \o output_lines ELSE stderr_lines

\* What the message names: str(sequence), or movie_path.name
Subject == <<"s">>

FailedPrefix == <<"F", "a", "i", "l", "e", "d", " ", "t", "o", " ", "c", "o", "n", "v", "e", "r", "t", " ">> \o Subject \o <<":", " ">>

ConvertedPrefix == <<"C", "o", "n", "v", "e", "r", "t", "e", "d", " ">> \o Subject

\* The two returns after the joins
ResultFor(success, fn, stderr_lines, output_lines) ==
    IF success
    THEN [success |-> TRUE, message |-> ConvertedPrefix]
    ELSE [success |-> FALSE,
          message |-> FailedPrefix \o Cut(JoinLines(LastLines(FailureLines(fn, stderr_lines, output_lines))))]

ConversionResultByOutput(fn, returncode, stderr_lines, output_lines) ==
    ResultFor(returncode = 0 /\ stderr_lines = <<>>, fn, stderr_lines, output_lines)

\* if returncode == 0: ... else: ...
ConversionResult(fn, returncode, stderr_lines, output_lines) ==
    ResultFor(returncode = 0, fn, stderr_lines, output_lines)

NoRun == [phase |-> "none"]

Init ==
    /\ preset_overrides = EmptyDict
    /\ global_overrides = EmptyDict
    /\ ffmpeg_path \in {"", "ffmpeg"}
    /\ effective = NoCall
    /\ conv = NoConv
    /\ directory = EmptyDirectory
    /\ found = NoScan
    /\ run = NoRun
    /\ settings_file = Construct(NoFile, CatalogFile(Presets), "ok").file
    /\ presets_file = CatalogFile(Presets)
    /\ instance = Construct(NoFile, CatalogFile(Presets), "ok").instance
    /\ store_op = NoStoreOp
    /\ batch = NoBatch
    /\ renaming = NoRenaming

NextConfig ==
    \/ SetPresetOverride(OverridablePresets, OverrideDicts)
    \/ ClearPresetOverride(OverridablePresets)
    \/ SetGlobalOverrides(OverrideDicts)
    \/ ClearGlobalOverrides
    \/ ResolveEffective

SpecConfig == Init /\ [][NextConfig]_vars

(***************************************************************************)
(* Calls of the conversions, the command builders and the namers.  `conv`  *)
(* records the last call: which function, from which menu entry point,     *)
(* with which arguments, and what came of it.                              *)
(***************************************************************************)
\* load_presets: "default_preset": "h264-mp4"
DefaultPreset == "h264-mp4"

\* Config.is_ffmpeg_available
is_ffmpeg_available == ffmpeg_path # ""

\* _get_resolution_scale, on the resolution names a conversion entry carries
_get_resolution_scale(resolution) ==
    IF resolution = "full" THEN FloatV("1.0")
    ELSE IF resolution = "half" THEN FloatV("0.5")
    ELSE IF resolution = "quarter" THEN FloatV("0.25")
    ELSE FloatV("1.0")

\* The arguments of a call, with the defaults of the signatures
DefaultArgs ==
    [kind |-> "sequence", members |-> <<>>, existing |-> {}, preset_key |-> "",
     preset |-> EmptyDict, start_number |-> IntV(0), resolution_scale |-> NullV,
     framerate |-> NullV, custom_text |-> <<>>, user_initials |-> "",
     hap_chunk_count |-> IntV(1), crf |-> NullV, speed |-> "", pixel_format |-> ""]

\* What a direct call of a builder or namer came to
Built(built, output_path) ==
    IF built.ok
    THEN [status |-> "built", message |-> "", cmd |-> built.cmd, output_path |-> output_path,
          pattern |-> <<>>, start_number |-> 0, first_frame |-> <<>>]
    ELSE [status |-> "raised", message |-> built.exc \o ": " \o built.msg, cmd |-> <<>>,
          output_path |-> "", pattern |-> <<>>, start_number |-> 0, first_frame |-> <<>>]

Named(output_path) ==
    [status |-> "named", message |-> "", cmd |-> <<>>, output_path |-> output_path,
     pattern |-> <<>>, start_number |-> 0, first_frame |-> <<>>]

\* The program is single-threaded: a call starts when the outcome of the one before
\* has been taken by its caller.
Idle == ~conv.called

Call(fn, entry, args, out) ==
    [called |-> TRUE, fn |-> fn, entry |-> entry, args |-> args, out |-> out]

\* The caller takes (success, msg) into its tally, or the argv or path returned
ReportOutcome ==
    /\ conv.called
    /\ conv' = NoConv
    /\ UNCHANGED <<preset_overrides, global_overrides, ffmpeg_path, effective, directory, found, run, settings_file, presets_file, instance, store_op, batch, renaming>>

\* convert_sequence_with_preset(sequence, preset_key, sequence_directory=..., ...)
ConvertSequence(entry, sequence, existing, preset_key, sequence_directory, resolution_scale, framerate, custom_text, user_initials, hap_chunk_count) ==
    /\ UNCHANGED <<preset_overrides, global_overrides, ffmpeg_path, effective, directory, found, run, settings_file, presets_file, instance, store_op, batch, renaming>>
    /\ conv' = Call("convert_sequence_with_preset", entry,
           [DefaultArgs EXCEPT !.members = sequence.members, !.existing = existing,
                               !.preset_key = preset_key, !.preset = get_preset(preset_key),
                               !.resolution_scale = resolution_scale,
                               !.framerate = framerate, !.custom_text = custom_text,
                               !.user_initials = user_initials,
                               !.hap_chunk_count = hap_chunk_count],
           convert_sequence_with_preset(sequence, existing, preset_key, sequence_directory,
                                        resolution_scale, framerate, custom_text,
                                        user_initials, hap_chunk_count))

\* convert_movie_with_preset(movie, preset_key, ...)
ConvertMovie(entry, movie, movie_exists, preset_key, resolution_scale, framerate, custom_text, user_initials, hap_chunk_count) ==
    /\ UNCHANGED <<preset_overrides, global_overrides, ffmpeg_path, effective, directory, found, run, settings_file, presets_file, instance, store_op, batch, renaming>>
    /\ conv' = Call("convert_movie_with_preset", entry,
           [DefaultArgs EXCEPT !.kind = "movie", !.members = <<movie>>,
                               !.existing = IF movie_exists THEN {1} ELSE {},
                               !.preset_key = preset_key, !.preset = get_preset(preset_key),
                               !.resolution_scale = resolution_scale,
                               !.framerate = framerate, !.custom_text = custom_text,
                               !.user_initials = user_initials,
                               !.hap_chunk_count = hap_chunk_count],
           convert_movie_with_preset(movie, movie_exists, preset_key, resolution_scale,
                                     framerate, custom_text, user_initials,
                                     hap_chunk_count))

\* One item of encode_default: the default preset, no further argument
encode_default(sequences, movies, existings) ==
    /\ Idle
    /\ is_ffmpeg_available
    /\ get_preset(DefaultPreset) # EmptyDict
    /\ \/ \E seq \in sequences, ex \in existings :
            ConvertSequence("encode_default", seq, ex, DefaultPreset, SeqDir,
                            NullV, NullV, <<>>, "", IntV(1))
       \/ \E movie \in movies, ex \in existings :
            ConvertMovie("encode_default", movie, 1 \in ex, DefaultPreset,
                         NullV, NullV, <<>>, "", IntV(1))

\* One item of encode_with_preset: the chosen preset, no further argument
encode_with_preset(sequences, movies, existings, keys) ==
    /\ Idle
    /\ is_ffmpeg_available
    /\ \E preset_key \in keys :
        /\ get_preset(preset_key) # EmptyDict
        /\ \/ \E seq \in sequences, ex \in existings :
                ConvertSequence("encode_with_preset", seq, ex, preset_key, SeqDir,
                                NullV, NullV, <<>>, "", IntV(1))
           \/ \E movie \in movies, ex \in existings :
                ConvertMovie("encode_with_preset", movie, 1 \in ex, preset_key,
                             NullV, NullV, <<>>, "", IntV(1))

\* One item of encode_recursive_interactive: the preset selected for its directory
encode_recursive_interactive(sequences, movies, existings, keys) ==
    /\ Idle
    /\ is_ffmpeg_available
    /\ \E preset_key \in keys \cap DOMAIN Presets :
        \/ \E seq \in sequences, ex \in existings :
                ConvertSequence("encode_recursive_interactive", seq, ex, preset_key, SeqDir,
                                NullV, NullV, <<>>, "", IntV(1))
        \/ \E movie \in movies, ex \in existings :
                ConvertMovie("encode_recursive_interactive", movie, 1 \in ex, preset_key,
                             NullV, NullV, <<>>, "", IntV(1))

\* One conversion of one item in encode_multi_output
encode_multi_output(sequences, movies, existings, conversions, initials, chunk_counts) ==
    /\ Idle
    /\ is_ffmpeg_available
    /\ \E conversion \in conversions, user_initials \in initials,
          hap_chunk_count \in chunk_counts :
        LET preset_key == conversion.preset
            preset == get_preset(preset_key)
            resolution_scale == _get_resolution_scale(conversion.resolution)
            chunk_count == IF DictGet(preset, "codec", NullV) = StrV("hap")
                           THEN hap_chunk_count ELSE IntV(1)
        IN  /\ preset # EmptyDict
            /\ \/ \E seq \in sequences, ex \in existings :
                    ConvertSequence("encode_multi_output", seq, ex, preset_key, SeqDir,
                                    resolution_scale, conversion.framerate,
                                    conversion.filename_suffix, user_initials, chunk_count)
               \/ \E movie \in movies, ex \in existings :
                    ConvertMovie("encode_multi_output", movie, 1 \in ex, preset_key,
                                 resolution_scale, conversion.framerate,
                                 conversion.filename_suffix, user_initials, chunk_count)

\* One sequence of convert_sequences_in_directory (the settings of
\* get_ffmpeg_encoding_settings)
convert_sequences_in_directory(sequences, existings, scales, crfs, framerates) ==
    /\ Idle
    /\ UNCHANGED <<preset_overrides, global_overrides, ffmpeg_path, effective, directory, found, run, settings_file, presets_file, instance, store_op, batch, renaming>>
    /\ \E seq \in sequences, ex \in existings, resolution_scale \in scales \ {NullV},
          crf \in crfs, framerate \in framerates :
           conv' = Call("convert_sequence_to_video", "convert_sequences_in_directory",
                  [DefaultArgs EXCEPT !.members = seq.members, !.existing = ex,
                                      !.resolution_scale = resolution_scale,
                                      !.crf = crf, !.speed = "medium",
                                      !.pixel_format = "yuv420p", !.framerate = framerate],
                  convert_sequence_to_video(seq, ex, SeqDir, resolution_scale, crf, "medium",
                                            "yuv420p", framerate))

\* A call of build_ffmpeg_command_from_preset with a preset dict of the caller's
BuildFromPreset(presets, starts, scales, framerates, chunk_counts) ==
    /\ Idle
    /\ UNCHANGED <<preset_overrides, global_overrides, ffmpeg_path, effective, directory, found, run, settings_file, presets_file, instance, store_op, batch, renaming>>
    /\ \E preset \in presets, start_number \in starts, resolution_scale \in scales,
          framerate \in framerates, hap_chunk_count \in chunk_counts :
           conv' = Call("build_ffmpeg_command_from_preset", "",
                  [DefaultArgs EXCEPT !.preset = preset, !.start_number = start_number,
                                      !.resolution_scale = resolution_scale,
                                      !.framerate = framerate,
                                      !.hap_chunk_count = hap_chunk_count],
                  Built(build_ffmpeg_command_from_preset(
                           PathJoin(SeqDir, "frame_%04d.png"), PathJoin(SeqDir, "out.mov"),
                           preset, start_number, resolution_scale, framerate,
                           hap_chunk_count),
                        PathJoin(SeqDir, "out.mov")))

\* A call of build_ffmpeg_command_from_preset_for_movie with a preset dict of the caller's
BuildFromPresetForMovie(presets, scales, framerates, chunk_counts) ==
    /\ Idle
    /\ UNCHANGED <<preset_overrides, global_overrides, ffmpeg_path, effective, directory, found, run, settings_file, presets_file, instance, store_op, batch, renaming>>
    /\ \E preset \in presets, resolution_scale \in scales,
          framerate \in framerates, hap_chunk_count \in chunk_counts :
           conv' = Call("build_ffmpeg_command_from_preset_for_movie", "",
                  [DefaultArgs EXCEPT !.kind = "movie", !.preset = preset,
                                      !.resolution_scale = resolution_scale,
                                      !.framerate = framerate,
                                      !.hap_chunk_count = hap_chunk_count],
                  Built(build_ffmpeg_command_from_preset_for_movie(
                           PathJoin(SeqDir, "clip.mov"), PathJoin(SeqDir, "out.mov"),
                           preset, resolution_scale, framerate, hap_chunk_count),
                        PathJoin(SeqDir, "out.mov")))

\* A call of generate_output_filename (the preview of encode_multi_output, or a caller's)
GenerateOutputFilename(sequences, presets, texts, initials) ==
    /\ Idle
    /\ UNCHANGED <<preset_overrides, global_overrides, ffmpeg_path, effective, directory, found, run, settings_file, presets_file, instance, store_op, batch, renaming>>
    /\ \E seq \in sequences, preset \in presets, custom_text \in texts,
          user_initials \in initials :
           conv' = Call("generate_output_filename", "",
                  [DefaultArgs EXCEPT !.members = seq.members, !.preset = preset,
                                      !.custom_text = custom_text,
                                      !.user_initials = user_initials],
                  Named(generate_output_filename(seq, preset, custom_text, user_initials)))

\* A call of generate_movie_output_filename
GenerateMovieOutputFilename(movies, presets, texts, initials) ==
    /\ Idle
    /\ UNCHANGED <<preset_overrides, global_overrides, ffmpeg_path, effective, directory, found, run, settings_file, presets_file, instance, store_op, batch, renaming>>
    /\ \E movie \in movies, preset \in presets, custom_text \in texts,
          user_initials \in initials :
           conv' = Call("generate_movie_output_filename", "",
                  [DefaultArgs EXCEPT !.kind = "movie", !.members = <<movie>>,
                                      !.preset = preset, !.custom_text = custom_text,
                                      !.user_initials = user_initials],
                  Named(generate_movie_output_filename(movie, preset, custom_text,
                                                       user_initials)))

(***************************************************************************)
(* Encodes of a scanned directory under a changing override store          *)
(***************************************************************************)
\* The scanned directory: two frame names (the second with two digit runs) and a movie
EncodeFrameNames == {<<"a", "_", "0", "1", ".", "p">>, <<"s", "1", "_", "0", "7", ".", "p">>}

EncodeSequences == SequencesOf(EncodeFrameNames)

EncodeMovies == {<<"m", ".", "v">>}

\* Which members exist when a conversion starts
EncodeExistings == {{1, 2}, {}}

Scales == {NullV, FloatV("1.0"), FloatV("0.5")}

Framerates == {NullV, IntV(0), IntV(24)}

StartNumbers == {IntV(0), IntV(7)}

ChunkCounts == {IntV(1), IntV(4)}

Crfs == {IntV(18), IntV(23)}

Initials == {"", "JP"}

\* The entries of a multi-output configuration
MultiConversions ==
    [preset : PresetKeys, resolution : {"full", "half"}, framerate : {IntV(24), IntV(30)},
     filename_suffix : {<<>>, <<"v", ".", "1">>}]

\* Preset dicts a caller hands to a builder: the catalogue's, one with a codec tag
\* outside the three families, one with an empty tag and one with none
BuilderPresets ==
    {Presets[k] : k \in DOMAIN Presets}
    \cup {[k \in {"codec", "suffix", "container"} |->
            IF k = "codec" THEN StrV("vp9") ELSE IF k = "suffix" THEN StrV("vp9")
            ELSE StrV("webm")],
          [k \in {"codec", "container"} |-> IF k = "codec" THEN StrV("") ELSE StrV("mp4")],
          [k \in {"container"} |-> StrV("mp4")]}

\* Override dicts as _configure_individual_preset and _configure_global_overrides store them
EncodeOverrideDicts ==
    {[k \in {"crf"} |-> IntV(18)],
     [k \in {"framerate", "resolution"} |-> IF k = "framerate" THEN IntV(24) ELSE StrV("half")]}

NextEncode ==
    \/ SetPresetOverride({DefaultPreset}, EncodeOverrideDicts)
    \/ ClearPresetOverride({DefaultPreset})
    \/ SetGlobalOverrides(EncodeOverrideDicts)
    \/ ClearGlobalOverrides
    \/ encode_default(EncodeSequences, EncodeMovies, EncodeExistings)
    \/ encode_with_preset(EncodeSequences, EncodeMovies, EncodeExistings, PresetKeys)
    \/ encode_recursive_interactive(EncodeSequences, EncodeMovies, EncodeExistings, PresetKeys)
    \/ encode_multi_output(EncodeSequences, EncodeMovies, EncodeExistings,
                           MultiConversions, Initials, ChunkCounts)
    \/ convert_sequences_in_directory(EncodeSequences, EncodeExistings, Scales, Crfs,
                                      Framerates)
    \/ BuildFromPreset(BuilderPresets, StartNumbers, Scales, Framerates, ChunkCounts)
    \/ BuildFromPresetForMovie(BuilderPresets, Scales, Framerates, ChunkCounts)
    \/ ReportOutcome

SpecEncode == Init /\ [][NextEncode]_vars

(***************************************************************************)
(* Names of files in a scanned directory                                   *)
(***************************************************************************)
\* The characters file names are made of: a letter, the separators the base-name rule
\* strips, two digits, and the dot
NameChars == {"a", "_", " ", "0", "1", "."}

\* Longest file name of a pattern resolution, of an output naming, and longest custom text
MaxNameLen == 4

MaxNamedLen == 3

MaxTextLen == 2

\* The strings over `chars` of 1 to n characters
Strings(chars, n) == UNION {[1..k -> chars] : k \in 1..n}

\* Names a directory entry can have: not "." or "..", no trailing dot or blank
FileNames(n) ==
    {name \in Strings(NameChars, n) : name[Len(name)] \notin {".", " "}}

PatternSequences == SequencesOf(FileNames(MaxNameLen))

PatternMovies == {<<"m", ".", "v">>}

PatternExistings == {{1, 2}, {2}, {}}

NextPattern ==
    \/ encode_with_preset(PatternSequences, PatternMovies, PatternExistings, {DefaultPreset})
    \/ convert_sequences_in_directory(PatternSequences, PatternExistings, {FloatV("1.0")},
                                      {IntV(23)}, {NullV})
    \/ ReportOutcome

SpecPattern == Init /\ [][NextPattern]_vars

NamedSequences == SequencesOf(FileNames(MaxNamedLen))

NamedMovies == FileNames(MaxNamedLen)

\* Preset dicts a namer is handed: the catalogue's H.264 entry, one with an empty
\* suffix, one with neither suffix nor container
NamingPresets ==
    {Presets[DefaultPreset],
     [k \in {"suffix", "container"} |-> IF k = "suffix" THEN StrV("") ELSE StrV("mov")],
     [k \in {"codec"} |-> StrV("hap")]}

CustomTexts == {<<>>} \cup Strings({"x", "."}, MaxTextLen)

NextFileName ==
    \/ GenerateOutputFilename(NamedSequences, NamingPresets, CustomTexts, Initials)
    \/ GenerateMovieOutputFilename(NamedMovies, NamingPresets, CustomTexts, Initials)
    \/ ReportOutcome

SpecFileName == Init /\ [][NextFileName]_vars

(***************************************************************************)
(* Claims about the resolution of effective settings                       *)
(***************************************************************************)
HasNonNull(d, k) == k \in DOMAIN d /\ d[k] # NullV

StoredPresetOverride(p) ==
    IF p \in DOMAIN preset_overrides THEN preset_overrides[p] ELSE EmptyDict

\* The value the precedence rule gives key k: global, else preset-specific, else default.
ByPrecedence(r, preset, po, g, k) ==
    IF HasNonNull(g, k) THEN k \in DOMAIN r /\ r[k] = g[k]
    ELSE IF HasNonNull(po, k) THEN k \in DOMAIN r /\ r[k] = po[k]
    ELSE IF k \in DOMAIN preset THEN k \in DOMAIN r /\ r[k] = preset[k]
    ELSE k \notin DOMAIN r

\* C1: for an existing preset and for_multi_output = False the resolved dict
\* holds, for every setting key, the non-null global override, else the
\* non-null preset-specific override, else the preset's default; a null
\* override entry never replaces a lower-precedence value.
C1_Precedence ==
    (effective.called /\ ~effective.for_multi_output
        /\ effective.preset_key \in DOMAIN Presets) =>
    LET p == effective.preset_key
        r == effective.result
    IN  /\ DOMAIN r \subseteq DOMAIN Presets[p] \cup OverrideKeys
        /\ \A k \in DOMAIN Presets[p] \cup OverrideKeys :
              ByPrecedence(r, Presets[p], StoredPresetOverride(p), global_overrides, k)

\* A resolution where all three layers and a null entry are in play.
C1_Witness ==
    /\ effective.called /\ ~effective.for_multi_output
    /\ effective.preset_key = "h264-mp4"
    /\ HasNonNull(global_overrides, "crf")
    /\ HasNonNull(StoredPresetOverride("h264-mp4"), "crf")
    /\ StoredPresetOverride("h264-mp4")["crf"] # global_overrides["crf"]
    /\ "pix_fmt" \in DOMAIN global_overrides /\ global_overrides["pix_fmt"] = NullV
    /\ effective.result["crf"] = global_overrides["crf"]
    /\ effective.result["pix_fmt"] = StrV("yuv420p")

\* The preset's defaults overlaid with its non-null preset-specific overrides only.
PresetLayerOnly(p) ==
    LET po == StoredPresetOverride(p)
    IN  [k \in DOMAIN Presets[p] \cup {k2 \in DOMAIN po : po[k2] # NullV} |->
            IF HasNonNull(po, k) THEN po[k] ELSE Presets[p][k]]

\* C2: with for_multi_output = True the resolved dict does not depend on the
\* global override set: it is the same for every store that differs from this
\* one only in its global overrides, and equals the preset defaults overlaid
\* with the preset's non-null preset-specific overrides.
C2_MultiOutputIgnoresGlobal ==
    (effective.called /\ effective.for_multi_output
        /\ effective.preset_key \in DOMAIN Presets) =>
    /\ effective.result = PresetLayerOnly(effective.preset_key)
    /\ \A g2 \in OverrideDicts :
          get_effective_preset_settings([Self EXCEPT !.global_overrides = g2],
                                        effective.preset_key, TRUE) = effective.result

\* A multi-output resolution under a global override that would change the result.
C2_Witness ==
    /\ effective.called /\ effective.for_multi_output
    /\ effective.preset_key = "h264-mp4"
    /\ HasNonNull(global_overrides, "crf")
    /\ HasNonNull(global_overrides, "pix_fmt")
    /\ HasNonNull(StoredPresetOverride("h264-mp4"), "crf")
    /\ StoredPresetOverride("h264-mp4")["crf"] # global_overrides["crf"]
    /\ effective.result["crf"] = StoredPresetOverride("h264-mp4")["crf"]
    /\ effective.result["pix_fmt"] = StrV("yuv420p")

(***************************************************************************)
(* Claims about the encoder argv                                           *)
(***************************************************************************)
\* Where a flag stands in an argv (the places, and the first of them), and its value
Places(cmd, flag) == {i \in 1..Len(cmd) : cmd[i] = flag}

Place(cmd, flag) == CHOOSE i \in Places(cmd, flag) : \A j \in Places(cmd, flag) : i <= j

ValueOf(cmd, flag) == cmd[Place(cmd, flag) + 1]

PresetEncodeEntries ==
    {"encode_default", "encode_with_preset", "encode_recursive_interactive",
     "encode_multi_output"}

\* The last call put an argv together (and, in a conversion, launched the encoder on it)
ArgvMade == conv.called /\ conv.out.status \in {"built", "launched"}

\* C3 (as stated): an encode started from a menu entry point without call-site
\* arguments builds its argv from the effective settings, so a non-null crf or
\* framerate override of the chosen preset, with no global override of the same
\* key in the way, is the value of -crf or -framerate in the argv.
C3_StoredOverridesReachArgv ==
    (ArgvMade /\ conv.entry \in PresetEncodeEntries \ {"encode_multi_output"}
        /\ conv.fn = "convert_sequence_with_preset"
        /\ conv.args.preset_key = DefaultPreset) =>
    LET po == StoredPresetOverride(DefaultPreset)
        cmd == conv.out.cmd
    IN  /\ (HasNonNull(po, "crf") /\ ~HasNonNull(global_overrides, "crf"))
              => ValueOf(cmd, "-crf") = PyStr(po["crf"])
        /\ (HasNonNull(po, "framerate") /\ ~HasNonNull(global_overrides, "framerate"))
              => ValueOf(cmd, "-framerate") = PyStr(po["framerate"])

SupportedCodecs == {StrV("libx264"), StrV("prores_ks"), StrV("hap")}

PresetBuilders ==
    {"build_ffmpeg_command_from_preset", "build_ffmpeg_command_from_preset_for_movie"}

\* The call was of a preset builder with a codec tag outside the three, or none
UnknownCodecCall ==
    /\ conv.called /\ conv.fn \in PresetBuilders
    /\ DictGet(conv.args.preset, "codec", NullV) \notin SupportedCodecs

CodecErrors ==
    {"ValueError: Preset missing 'codec' field"}
    \cup {"ValueError: Unsupported codec: " \o PyStr(p["codec"]) :
            p \in {q \in BuilderPresets : "codec" \in DOMAIN q}}

\* C4 (as stated): a preset builder given a codec tag outside libx264, prores_ks,
\* hap, or none, ends in the unsupported-codec or missing-codec error.
C4_EndsInCodecError ==
    UnknownCodecCall => (conv.out.status = "raised" /\ conv.out.message \in CodecErrors)

\* C4: a preset builder given a codec tag outside libx264, prores_ks, hap, or
\* none, returns no argv and never falls back to a codec block; when the encoder
\* path resolves, the error it ends in is the missing-codec error for an absent
\* or empty tag and the unsupported-codec error naming the tag otherwise.
C4_NoArgvNoFallback ==
    UnknownCodecCall =>
        /\ conv.out.status = "raised"
        /\ conv.out.cmd = <<>>
        /\ is_ffmpeg_available =>
              conv.out.message =
                 IF ~Truthy(DictGet(conv.args.preset, "codec", NullV))
                 THEN "ValueError: Preset missing 'codec' field"
                 ELSE "ValueError: Unsupported codec: " \o PyStr(conv.args.preset["codec"])

\* A builder call with the tag vp9 and a resolved encoder path, ended in its error.
C4_Witness ==
    /\ UnknownCodecCall /\ is_ffmpeg_available
    /\ conv.fn = "build_ffmpeg_command_from_preset_for_movie"
    /\ DictGet(conv.args.preset, "codec", NullV) = StrV("vp9")
    /\ conv.out.message = "ValueError: Unsupported codec: vp9"

SequenceArgvFns ==
    {"build_ffmpeg_command_from_preset", "convert_sequence_with_preset",
     "convert_sequence_to_video"}

\* The codec family of the last call, and the input framerate it asked for
CodecOfCall ==
    IF conv.fn = "convert_sequence_to_video" THEN StrV("libx264")
    ELSE DictGet(conv.args.preset, "codec", NullV)

FramerateOfCall ==
    IF conv.fn # "convert_sequence_to_video" /\ conv.args.framerate = NullV
    THEN IntV(30) ELSE conv.args.framerate

\* C5: an argv for an image-sequence encode is, in this order: the encoder
\* binary, -y, optional -framerate F, -f image2, -start_number N, -i pattern,
\* optional -vf chain, optional -r F, one codec block opened by the only -c:v
\* (with -crf only for libx264, -vendor only for prores_ks, -chunks only for
\* hap), and the output path last; -framerate and -r come together with the
\* same value.
C5_ArgvOrder ==
    (ArgvMade /\ conv.fn \in SequenceArgvFns) =>
    LET cmd == conv.out.cmd
        n == Len(cmd)
        hasIn == cmd[3] = "-framerate"
        f == IF hasIn THEN 5 ELSE 3
        hasVf == cmd[f + 6] = "-vf"
        r == IF hasVf THEN f + 8 ELSE f + 6
        hasOut == cmd[r] = "-r"
        c == IF hasOut THEN r + 2 ELSE r
        N == IF conv.fn = "build_ffmpeg_command_from_preset"
             THEN PyStr(conv.args.start_number) ELSE ToString(conv.out.start_number)
        pattern == IF conv.fn = "build_ffmpeg_command_from_preset"
                   THEN PathJoin(SeqDir, "frame_%04d.png")
                   ELSE PathJoin(SeqDir, Str(conv.out.pattern))
    IN  /\ cmd[1] = ffmpeg_path /\ cmd[2] = "-y"
        /\ hasIn <=> Truthy(FramerateOfCall)
        /\ hasIn => cmd[4] = PyStr(FramerateOfCall)
        /\ SubSeq(cmd, f, f + 5) = <<"-f", "image2", "-start_number", N, "-i", pattern>>
        /\ hasOut <=> hasIn
        /\ hasOut => cmd[r + 1] = cmd[4]
        /\ cmd[c] = "-c:v" /\ cmd[c + 1] = PyStr(CodecOfCall)
        /\ \A flag \in {"-y", "-f", "-start_number", "-i", "-c:v"} :
              Cardinality(Places(cmd, flag)) = 1
        /\ \A flag \in {"-framerate", "-vf", "-r"} : Cardinality(Places(cmd, flag)) <= 1
        /\ \A flag \in {"-crf", "-vendor", "-chunks"} : Places(cmd, flag) \subseteq (c + 2)..(n - 2)
        /\ Places(cmd, "-crf") # {} <=> CodecOfCall = StrV("libx264")
        /\ Places(cmd, "-vendor") # {} <=> CodecOfCall = StrV("prores_ks")
        /\ Places(cmd, "-chunks") # {} <=> CodecOfCall = StrV("hap")
        /\ cmd[n] = conv.out.output_path

\* A launched ProRes conversion at 24 fps and half size: every optional part present.
C5_Witness ==
    /\ ArgvMade /\ conv.fn = "convert_sequence_with_preset"
    /\ conv.args.preset_key = "prores-4444"
    /\ conv.args.framerate = IntV(24)
    /\ conv.args.resolution_scale = FloatV("0.5")
    /\ SubSeq(conv.out.cmd, 1, 4) = <<"ffmpeg", "-y", "-framerate", "24">>
    /\ Place(conv.out.cmd, "-vf") < Place(conv.out.cmd, "-r")
    /\ Place(conv.out.cmd, "-r") < Place(conv.out.cmd, "-vendor")

PresetArgvFns ==
    PresetBuilders \cup {"convert_sequence_with_preset", "convert_movie_with_preset"}

\* The scale factor S of the last call
ScaleOfCall ==
    IF conv.args.resolution_scale = NullV THEN FloatV("1.0") ELSE conv.args.resolution_scale

\* C6: in an argv built from a preset whose codec is not hap, -vf holds the
\* scale filter (only when S is not 1.0), then the zscale colour filter, then
\* format=<pix_fmt>; when the codec is hap the argv holds neither colour filter
\* and has -vf only when S is not 1.0, holding the scale filter alone.
C6_FilterChain ==
    (ArgvMade /\ conv.fn \in PresetArgvFns) =>
    LET cmd == conv.out.cmd
        S == PyStr(ScaleOfCall)
        scale == "scale=iw*" \o S \o ":ih*" \o S
        pix_fmt == PyStr(DictGet(conv.args.preset, "pix_fmt", StrV("yuv420p")))
        colour == ZscaleFilter \o ",format=" \o pix_fmt
    IN  IF CodecOfCall # StrV("hap")
        THEN /\ Cardinality(Places(cmd, "-vf")) = 1
             /\ ValueOf(cmd, "-vf") = IF S # "1.0" THEN scale \o "," \o colour ELSE colour
        ELSE /\ Places(cmd, "-vf") # {} <=> S # "1.0"
             /\ Places(cmd, "-vf") # {} => ValueOf(cmd, "-vf") = scale
             /\ \A i \in 1..Len(cmd) :
                   cmd[i] \notin {ZscaleFilter, "format=" \o pix_fmt, colour,
                                  scale \o "," \o colour}

\* A hap conversion at half size: -vf is the scale filter alone.
C6_Witness ==
    /\ ArgvMade /\ conv.fn \in {"convert_sequence_with_preset", "convert_movie_with_preset"}
    /\ CodecOfCall = StrV("hap")
    /\ ScaleOfCall = FloatV("0.5")
    /\ ValueOf(conv.out.cmd, "-vf") = "scale=iw*0.5:ih*0.5"

(***************************************************************************)
(* Claims about output names and input patterns                            *)
(***************************************************************************)
\* "_" and the part when there is one, nothing otherwise
Segment(part) == IF part = "" THEN "" ELSE "_" \o part

\* C7: both namers return the base name, the preset suffix, the custom text
\* without its periods and the user initials, each non-empty part preceded by
\* one underscore and each empty part left out with its underscore, then "."
\* and the container; the base name of a movie is its stem.
C7_FileNameParts ==
    (conv.called /\ conv.fn \in {"generate_output_filename", "generate_movie_output_filename"})
    =>
    LET stem == PathStem(conv.args.members[1])
        base_name == IF conv.args.kind = "movie" THEN stem ELSE OutputBaseName(stem)
        text == SelectSeq(conv.args.custom_text, LAMBDA c : c # ".")
    IN  conv.out.output_path =
            SeqDir \o "/" \o Str(base_name)
            \o Segment(PyStr(DictGet(conv.args.preset, "suffix", StrV(""))))
            \o Segment(Str(text))
            \o Segment(conv.args.user_initials)
            \o "." \o PyStr(DictGet(conv.args.preset, "container", StrV("mp4")))

\* A movie named with an empty suffix, a custom text of periods only, and initials.
C7_Witness ==
    /\ conv.called /\ conv.fn = "generate_movie_output_filename"
    /\ conv.args.members[1] = <<"a", ".", "a">>
    /\ DictGet(conv.args.preset, "suffix", NullV) = StrV("")
    /\ conv.args.custom_text = <<".", ".">>
    /\ conv.args.user_initials = "JP"
    /\ conv.out.output_path = "/shots/a_JP.mov"

\* How many characters at the end of s satisfy P
TrailingCount(s, P(_)) ==
    CHOOSE k \in 0..Len(s) :
        /\ \A i \in (Len(s) - k + 1)..Len(s) : P(s[i])
        /\ k = Len(s) \/ ~P(s[Len(s) - k])

\* The base name as the rule states it: the trailing digits off, then the underscores
\* and blanks before them; the stem itself when nothing or less than 2 characters remain
ExpectedBaseName(stem) ==
    LET d == TrailingCount(stem, IsDigit)
        noDigits == SubSeq(stem, 1, Len(stem) - d)
        u == TrailingCount(noDigits, IsUnderscoreOrSpace)
        rest == SubSeq(noDigits, 1, Len(noDigits) - u)
    IN  IF d = 0 \/ Len(rest) < 2 THEN stem ELSE rest

\* C8: the output file of a sequence conversion is named after the first
\* frame's stem without its trailing digit run and the underscores and blanks
\* before it, after the whole stem when less than 2 characters would remain or
\* there is no trailing digit run; both conversion paths use the same base name.
C8_BaseName ==
    (conv.called /\ conv.out.status = "launched"
        /\ conv.fn \in {"convert_sequence_with_preset", "convert_sequence_to_video"}) =>
    LET stem == PathStem(conv.args.members[1])
    IN  /\ conv.out.output_path =
              SeqDir \o "/" \o Str(ExpectedBaseName(stem))
              \o (IF conv.fn = "convert_sequence_with_preset" THEN "_h264.mp4" ELSE ".mp4")
        /\ OutputBaseName(stem) = LegacyBaseName(stem)

\* A preset conversion of aa_1, aa_2: named aa.
C8_Witness ==
    /\ conv.called /\ conv.out.status = "launched"
    /\ conv.fn = "convert_sequence_with_preset"
    /\ conv.args.members[1] = <<"a", "a", "_", "1">>
    /\ conv.out.output_path = "/shots/aa_h264.mp4"

\* C9: the input pattern of convert_sequence_with_preset is the file name it
\* found, with the rightmost digit run of the stem replaced by %0Wd, W the
\* length of that run, and every other character where it was.
C9_RightmostRunReplaced ==
    (conv.called /\ conv.out.status = "launched"
        /\ conv.fn = "convert_sequence_with_preset") =>
    LET name == conv.args.members[IF 1 \in conv.args.existing THEN 1 ELSE 2]
        stem == PathStem(name)
    IN  /\ \E a \in 1..Len(stem), b \in 1..Len(stem) :
              /\ a <= b
              /\ \A i \in a..b : IsDigit(stem[i])
              /\ \A i \in (b + 1)..Len(stem) : ~IsDigit(stem[i])
              /\ a = 1 \/ ~IsDigit(stem[a - 1])
              /\ conv.out.pattern =
                    SubSeq(name, 1, a - 1) \o <<"%", "0">> \o DecimalChars(b - a + 1)
                    \o <<"d">> \o SubSeq(name, b + 1, Len(name))
        /\ ValueOf(conv.out.cmd, "-i") = SeqDir \o "/" \o Str(conv.out.pattern)

\* A conversion of 1_01, 1_02: the first run stays, the second becomes %02d.
C9_Witness ==
    /\ conv.called /\ conv.out.status = "launched"
    /\ conv.fn = "convert_sequence_with_preset"
    /\ conv.args.members[1] = <<"1", "_", "0", "1">>
    /\ conv.out.pattern = <<"1", "_", "%", "0", "2", "d">>

\* n in decimal, zero-padded to w digits
ZeroPadded(n, w) ==
    LET digits == DecimalChars(n)
    IN  [i \in 1..(w - Len(digits)) |-> "0"] \o digits

\* The file name the encoder's image2 demuxer reads for frame number n of a pattern
FrameFileName(pattern, n) ==
    LET pct == CHOOSE i \in 1..Len(pattern) : pattern[i] = "%"
        d == CHOOSE i \in (pct + 1)..Len(pattern) :
                pattern[i] = "d" /\ \A j \in (pct + 1)..(i - 1) : pattern[j] # "d"
    IN  SubSeq(pattern, 1, pct - 1)
        \o ZeroPadded(n, ParseInt(SubSeq(pattern, pct + 1, d - 1)))
        \o SubSeq(pattern, d + 1, Len(pattern))

\* C10 (as stated): the -start_number of a launched conversion of a sequence
\* whose members all exist, substituted into its input pattern, gives the
\* first member's file name.
C10_StartNumberNamesFirstMember ==
    (conv.called /\ conv.out.status = "launched" /\ conv.args.existing = {1, 2}
        /\ conv.fn \in {"convert_sequence_with_preset", "convert_sequence_to_video"}) =>
    /\ ValueOf(conv.out.cmd, "-start_number") = ToString(conv.out.start_number)
    /\ FrameFileName(conv.out.pattern, conv.out.start_number) = conv.args.members[1]

(***************************************************************************)
(* Scanning a directory for sequences and movies                           *)
(***************************************************************************)
MaxEntries == 4

EntryNames ==
    {<<"a", "1", ".", "p", "n", "g">>, <<"a", "2", ".", "p", "n", "g">>, <<"a", "3", ".", "p", "n", "g">>,
     <<"m", "1", ".", "M", "O", "V">>, <<"m", "2", ".", "M", "O", "V">>,
     <<"g", "1", ".", "m", "p", "g">>, <<"g", "2", ".", "m", "p", "g">>}

EntryKinds == {"file", "dir", "fault"}

\* Something outside the program puts an entry in the directory; what was found
\* before is of another directory state.
CreateEntry ==
    /\ Cardinality(DOMAIN directory.entries) < MaxEntries
    /\ \E name \in EntryNames \ DOMAIN directory.entries, kind \in EntryKinds :
          directory' = [directory EXCEPT !.entries =
              [n \in DOMAIN directory.entries \cup {name} |-> IF n = name THEN kind ELSE directory.entries[n]]]
    /\ found' = NoScan
    /\ UNCHANGED <<preset_overrides, global_overrides, ffmpeg_path, effective, conv, run, settings_file, presets_file, instance, store_op, batch, renaming>>

\* The directory stops or starts being listable (permissions, an unmounted share)
SetListable ==
    /\ directory' = [directory EXCEPT !.listable = ~directory.listable]
    /\ found' = NoScan
    /\ UNCHANGED <<preset_overrides, global_overrides, ffmpeg_path, effective, conv, run, settings_file, presets_file, instance, store_op, batch, renaming>>

FindImageSequences ==
    /\ ~found.sequences.done
    /\ \E all_sequences \in Orders(get_sequences(DOMAIN directory.entries)) :
          found' = [found EXCEPT !.sequences = [done |-> TRUE, value |-> find_image_sequences(directory, all_sequences)]]
    /\ UNCHANGED <<preset_overrides, global_overrides, ffmpeg_path, effective, conv, directory, run, settings_file, presets_file, instance, store_op, batch, renaming>>

FindMovieFiles ==
    /\ ~found.movies.done
    /\ \E listing \in Orders(DOMAIN directory.entries) :
          found' = [found EXCEPT !.movies = [done |-> TRUE, value |-> find_movie_files(directory, listing)]]
    /\ UNCHANGED <<preset_overrides, global_overrides, ffmpeg_path, effective, conv, directory, run, settings_file, presets_file, instance, store_op, batch, renaming>>

NextScan ==
    \/ CreateEntry
    \/ SetListable
    \/ FindImageSequences
    \/ FindMovieFiles

SpecScan == Init /\ [][NextScan]_vars

(***************************************************************************)
(* Running the encoder: the child, its two pipes, the reader threads and   *)
(* the thread that waits                                                   *)
(***************************************************************************)
\* How many lines a pipe holds before a write of the child blocks
PipeCapacity == 1

ConversionFns == {"convert_sequence_to_video", "convert_sequence_with_preset", "convert_movie_with_preset"}

ExitCodes == {0, 1}

ErrorLine == <<"E", "r", "r", "o", "r">>

ProgressLine == <<"f", "r", "a", "m", "e", "=", "1">>

BlankLine == <<" ">>

OutLine == <<"o", "u", "t">>

LongLine == [i \in 1..101 |-> "x"]

Write(stream, line) == [stream |-> stream, line |-> line]

\* What a child may write before it exits
ChildScripts ==
    {<<>>,
     <<Write("stderr", ErrorLine)>>,
     <<Write("stdout", OutLine)>>,
     <<Write("stderr", ErrorLine)>> \o [i \in 1..TailLines |-> Write("stderr", ProgressLine)],
     <<Write("stderr", LongLine), Write("stderr", LongLine)>>,
     <<Write("stdout", OutLine), Write("stderr", BlankLine), Write("stderr", ProgressLine), Write("stderr", ErrorLine), Write("stdout", OutLine)>>,
     [i \in 1..(PipeCapacity + 1) |-> Write("stdout", OutLine)] \o <<Write("stderr", ErrorLine)>>}

\* subprocess.Popen(cmd, stdout=PIPE, stderr=PIPE, ...), the two lists, and the start
\* of the two daemon threads; the caller then sits in process.wait()
Launch(fns, scripts, codes) ==
    /\ run.phase = "none"
    /\ \E fn \in fns, script \in scripts, code \in codes :
          run' = [phase |-> "run", fn |-> fn, wrote |-> script, script |-> script, exit_code |-> code,
                  child |-> "running", stdout |-> <<>>, stderr |-> <<>>,
                  output_lines |-> <<>>, stderr_lines |-> <<>>, last_was_progress |-> FALSE,
                  stdout_thread |-> "alive", stderr_thread |-> "alive",
                  main |-> "wait", returncode |-> -1, timed_out |-> FALSE,
                  result |-> [success |-> FALSE, message |-> <<>>]]
    /\ UNCHANGED <<preset_overrides, global_overrides, ffmpeg_path, effective, conv, directory, found, settings_file, presets_file, instance, store_op, batch, renaming>>

\* The child writes its next line; the write blocks while the pipe is full
ChildWrite ==
    /\ run.phase = "run"
    /\ run.child = "running"
    /\ run.script # <<>>
    /\ LET w == Head(run.script)
       IN  /\ Len(run[w.stream]) < PipeCapacity
           /\ run' = [run EXCEPT ![w.stream] = Append(@, w.line), !.script = Tail(@)]
    /\ UNCHANGED <<preset_overrides, global_overrides, ffmpeg_path, effective, conv, directory, found, settings_file, presets_file, instance, store_op, batch, renaming>>

\* The child has written everything and exits, which closes its ends of the pipes
ChildExit ==
    /\ run.phase = "run"
    /\ run.child = "running"
    /\ run.script = <<>>
    /\ run' = [run EXCEPT !.child = "exited"]
    /\ UNCHANGED <<preset_overrides, global_overrides, ffmpeg_path, effective, conv, directory, found, settings_file, presets_file, instance, store_op, batch, renaming>>

StderrThreadAfterStdout == run.stderr_thread = "alive" /\ run.stdout_thread = "finished"

\* Each reader is a thread of its own
StdoutThreadRuns == run.stdout_thread = "alive"

StderrThreadRuns == run.stderr_thread = "alive"

\* read_stdout: one turn of `for line in process.stdout`, the end of the loop at EOF
ReadStdout ==
    /\ run.phase = "run"
    /\ StdoutThreadRuns
    /\ \/ /\ run.stdout # <<>>
          /\ run' = [run EXCEPT !.stdout = Tail(@), !.output_lines = StdoutKeeps(@, Head(run.stdout))]
       \/ /\ run.stdout = <<>>
          /\ run.child = "exited"
          /\ run' = [run EXCEPT !.stdout_thread = "finished"]
    /\ UNCHANGED <<preset_overrides, global_overrides, ffmpeg_path, effective, conv, directory, found, settings_file, presets_file, instance, store_op, batch, renaming>>

\* read_stderr: one turn of `for line in process.stderr`, the end of the loop at EOF
ReadStderr ==
    /\ run.phase = "run"
    /\ StderrThreadRuns
    /\ \/ /\ run.stderr # <<>>
          /\ LET kept == StderrKeeps(run.stderr_lines, run.last_was_progress, Head(run.stderr))
             IN  run' = [run EXCEPT !.stderr = Tail(@), !.stderr_lines = kept.stderr_lines,
                                    !.last_was_progress = kept.last_was_progress]
       \/ /\ run.stderr = <<>>
          /\ run.child = "exited"
          /\ run' = [run EXCEPT !.stderr_thread = "finished"]
    /\ UNCHANGED <<preset_overrides, global_overrides, ffmpeg_path, effective, conv, directory, found, settings_file, presets_file, instance, store_op, batch, renaming>>

\* returncode = process.wait()
Wait ==
    /\ run.phase = "run"
    /\ run.main = "wait"
    /\ run.child = "exited"
    /\ run' = [run EXCEPT !.main = "join_stdout", !.returncode = run.exit_code]
    /\ UNCHANGED <<preset_overrides, global_overrides, ffmpeg_path, effective, conv, directory, found, settings_file, presets_file, instance, store_op, batch, renaming>>

\* stdout_thread.join(timeout=1): over when the thread is, or after a second
JoinStdout ==
    /\ run.phase = "run"
    /\ run.main = "join_stdout"
    /\ run' = [run EXCEPT !.main = "join_stderr", !.timed_out = @ \/ run.stdout_thread = "alive"]
    /\ UNCHANGED <<preset_overrides, global_overrides, ffmpeg_path, effective, conv, directory, found, settings_file, presets_file, instance, store_op, batch, renaming>>

\* stderr_thread.join(timeout=1)
JoinStderr ==
    /\ run.phase = "run"
    /\ run.main = "join_stderr"
    /\ run' = [run EXCEPT !.main = "result", !.timed_out = @ \/ run.stderr_thread = "alive"]
    /\ UNCHANGED <<preset_overrides, global_overrides, ffmpeg_path, effective, conv, directory, found, settings_file, presets_file, instance, store_op, batch, renaming>>

\* The return on the exit code, from the lists as they are at that moment
ReturnResult ==
    /\ run.phase = "run"
    /\ run.main = "result"
    /\ run' = [run EXCEPT !.main = "returned",
                          !.result = ConversionResult(run.fn, run.returncode, run.stderr_lines, run.output_lines)]
    /\ UNCHANGED <<preset_overrides, global_overrides, ffmpeg_path, effective, conv, directory, found, settings_file, presets_file, instance, store_op, batch, renaming>>

\* KeyboardInterrupt in process.wait(): no handler of the conversion function or
\* of its callers matches it, so it leaves the function
Interrupt ==
    /\ run.phase = "run"
    /\ run.main = "wait"
    /\ run' = [run EXCEPT !.main = "interrupted"]
    /\ UNCHANGED <<preset_overrides, global_overrides, ffmpeg_path, effective, conv, directory, found, settings_file, presets_file, instance, store_op, batch, renaming>>

\* The caller takes (success, msg); the next conversion can start
TakeResult ==
    /\ run.phase = "run"
    /\ run.main = "returned"
    /\ run.child = "exited"
    /\ run.stdout_thread = "finished"
    /\ run.stderr_thread = "finished"
    /\ run' = NoRun
    /\ UNCHANGED <<preset_overrides, global_overrides, ffmpeg_path, effective, conv, directory, found, settings_file, presets_file, instance, store_op, batch, renaming>>

NextRun ==
    \/ Launch(ConversionFns, ChildScripts, ExitCodes)
    \/ ChildWrite
    \/ ChildExit
    \/ ReadStdout
    \/ ReadStderr
    \/ Wait
    \/ JoinStdout
    \/ JoinStderr
    \/ ReturnResult
    \/ Interrupt
    \/ TakeResult

SpecRun == Init /\ [][NextRun]_vars

\* The operating system schedules the child and every thread of the program: a step
\* of one of them that stays possible is taken. A launch, an interrupt and the
\* caller's next call are not owed.
FairRun ==
    /\ WF_vars(ChildWrite)
    /\ WF_vars(ChildExit)
    /\ WF_vars(ReadStdout)
    /\ WF_vars(ReadStderr)
    /\ WF_vars(Wait)
    /\ WF_vars(JoinStdout)
    /\ WF_vars(JoinStderr)
    /\ WF_vars(ReturnResult)

\* How many lines the children of the fair runs write
MaxWrites == 2

\* Every interleaving of up to MaxWrites lines on the two streams
Interleavings ==
    UNION {[1..n -> {Write("stdout", OutLine), Write("stderr", ErrorLine)}] : n \in 0..MaxWrites}

NextRunFair ==
    \/ Launch(ConversionFns, Interleavings, ExitCodes)
    \/ ChildWrite
    \/ ChildExit
    \/ ReadStdout
    \/ ReadStderr
    \/ Wait
    \/ JoinStdout
    \/ JoinStderr
    \/ ReturnResult
    \/ Interrupt
    \/ TakeResult

SpecRunFair == Init /\ [][NextRunFair]_vars /\ FairRun

(***************************************************************************)
(* The settings store: construction, set, and the files changing under it  *)
(***************************************************************************)
oldVars == <<preset_overrides, global_overrides, ffmpeg_path, effective, conv, directory, found, run>>

SettingKeys == {"default_preset", "user_initials"}

SettingValues == {StrV(""), StrV("JP")}

FileKinds == {"missing", "array", "garbled", "bad_utf8", "unreadable"}

WriteOutcomes == {"ok", "denied", "partial"}

\* Config.get_preset on a Config object
GetPreset(self, preset_key) == DictGet(self._presets, preset_key, EmptyDict)

\* The settings file is damaged, removed or replaced from outside the program
DamageSettingsFile ==
    /\ \E kind \in FileKinds : settings_file' = (IF kind = "missing" THEN NoFile ELSE BrokenFile(kind))
    /\ store_op' = NoStoreOp
    /\ UNCHANGED <<oldVars, presets_file, instance, batch, renaming>>

CatalogStates == {CatalogFile(Presets), NoFile, BrokenFile("array"), BrokenFile("garbled"), BrokenFile("bad_utf8")}

\* The catalog of the installation is damaged, removed or put back
ReplacePresetsFile ==
    /\ \E file \in CatalogStates : presets_file' = file
    /\ store_op' = NoStoreOp
    /\ UNCHANGED <<oldVars, settings_file, instance, batch, renaming>>

\* reset_config(), or the start of a new process
ResetConfig ==
    /\ instance.made
    /\ instance' = NoInstance
    /\ store_op' = NoStoreOp
    /\ UNCHANGED <<oldVars, settings_file, presets_file, batch, renaming>>

\* get_config() with no instance yet: Config()
GetConfig ==
    /\ ~instance.made
    /\ \E outcome \in WriteOutcomes :
          LET made == Construct(settings_file, presets_file, outcome)
          IN  /\ instance' = made.instance
              /\ settings_file' = made.file
              /\ store_op' = [op |-> "construct", raised |-> made.raised, key |-> "", value |-> NullV, outcome |-> outcome,
                              settings_kind |-> settings_file.kind, presets_kind |-> presets_file.kind]
    /\ UNCHANGED <<oldVars, presets_file, batch, renaming>>

\* config.set(key, value)
ConfigSetOf(keys, values, outcomes) ==
    /\ instance.made
    /\ \E key \in keys, value \in values, outcome \in outcomes :
          LET done == Set(instance, settings_file, key, value, outcome)
          IN  /\ instance' = done.instance
              /\ settings_file' = done.file
              /\ store_op' = [op |-> "set", raised |-> done.raised, key |-> key, value |-> value, outcome |-> outcome,
                              settings_kind |-> settings_file.kind, presets_kind |-> presets_file.kind]
    /\ UNCHANGED <<oldVars, presets_file, batch, renaming>>

ConfigSet == ConfigSetOf(SettingKeys, SettingValues, WriteOutcomes)

NextStore ==
    \/ DamageSettingsFile
    \/ ReplacePresetsFile
    \/ ResetConfig
    \/ GetConfig
    \/ ConfigSet

SpecStore == Init /\ [][NextStore]_vars

(***************************************************************************)
(* The settings menus and the encodes that read what they stored           *)
(***************************************************************************)
\* A dict stored as one value of the settings
DictV(d) == [t |-> "dict", i |-> 0, s |-> "", d |-> d]

\* Numbers typed at a CRF prompt, or passed as crf
CrfInputs == {17, 18, 28, 29}

\* Numbers typed at a chunk count prompt
ChunkInputs == {0, 1, 8, 9}

\* Config.get_default_multi_output_config
get_default_multi_output_config(self) == DictGet(self._config.d, "default_multi_output_config", NullV)

\* Config.get_hap_chunk_count
get_hap_chunk_count(self) ==
    LET multi_config == get_default_multi_output_config(self)
    IN  IF multi_config.t = "dict" THEN DictGet(multi_config.d, "hap_chunk_count", IntV(1)) ELSE IntV(1)

\* Config.get_ffmpeg_encoding_settings()["crf"]
get_ffmpeg_crf(self) == DictGet(self._config.d, "ffmpeg_crf", IntV(23))

\* if hap_chunk_count < 1: hap_chunk_count = 1
AtLeastOne(n) == IF n < 1 THEN 1 ELSE n

\* _configure_multi_output: the count asked when a conversion uses a hap preset, 1 otherwise
_configure_multi_output(conversions, initials, inputs) ==
    /\ instance.made
    /\ \E conversion \in conversions, user_initials \in initials, asked \in inputs, outcome \in {"ok"} :
          LET uses_hap == DictGet(get_preset(conversion.preset), "codec", NullV) = StrV("hap")
              hap_chunk_count == IF uses_hap THEN AtLeastOne(asked) ELSE 1
              multi_config == DictV([user_initials |-> StrV(user_initials), hap_chunk_count |-> IntV(hap_chunk_count), conversions |-> <<conversion>>])
              done == Set(instance, settings_file, "default_multi_output_config", multi_config, outcome)
          IN  /\ get_preset(conversion.preset) # EmptyDict
              /\ instance' = done.instance
              /\ settings_file' = done.file
    /\ conv' = NoConv
    /\ UNCHANGED <<preset_overrides, global_overrides, ffmpeg_path, effective, directory, found, run, presets_file, store_op, batch, renaming>>

\* The "crf" entry a prompt answer gives: none unless 18 <= crf <= 28
CrfOverride(asked) == IF 18 <= asked /\ asked <= 28 THEN [k \in {"crf"} |-> IntV(asked)] ELSE EmptyDict

\* The "hap_chunk_count" entry a prompt answer gives: none unless 1 <= n <= 8
ChunkOverride(asked) == IF 1 <= asked /\ asked <= 8 THEN [k \in {"hap_chunk_count"} |-> IntV(asked)] ELSE EmptyDict

\* _configure_individual_preset, the other prompts left blank: overrides = {} with the
\* codec's entry if accepted, stored only if not empty
_configure_individual_preset(keys, crf_inputs, chunk_inputs) ==
    \E preset_key \in keys, crf \in crf_inputs, chunk_count \in chunk_inputs :
        LET codec == DictGet(get_preset(preset_key), "codec", NullV)
            overrides == IF codec = StrV("libx264") THEN CrfOverride(crf)
                         ELSE IF codec = StrV("hap") THEN ChunkOverride(chunk_count)
                         ELSE EmptyDict
        IN  /\ get_preset(preset_key) # EmptyDict
            /\ overrides # EmptyDict
            /\ set_preset_override(preset_key, overrides)

\* _configure_global_overrides, the other prompts left blank: overrides = {} with the
\* entries accepted, stored whatever it holds
_configure_global_overrides(crf_inputs, chunk_inputs) ==
    \E crf \in crf_inputs, chunk_count \in chunk_inputs :
        set_global_overrides(ChunkOverride(chunk_count) @@ CrfOverride(crf))

\* Config.set_ffmpeg_encoding_settings(crf=crf)
set_ffmpeg_encoding_settings(crf_inputs) ==
    /\ instance.made
    /\ \E crf \in crf_inputs, outcome \in {"ok"} :
          LET done == Set(instance, settings_file, "ffmpeg_crf", IntV(crf), outcome)
          IN  /\ instance' = done.instance
              /\ settings_file' = done.file
    /\ conv' = NoConv
    /\ UNCHANGED <<preset_overrides, global_overrides, ffmpeg_path, effective, directory, found, run, presets_file, store_op, batch, renaming>>

\* The conversions of the stored multi-output configuration
StoredConversions ==
    LET multi_config == get_default_multi_output_config(instance)
    IN  IF multi_config.t = "dict" THEN {multi_config.d.conversions[i] : i \in 1..Len(multi_config.d.conversions)} ELSE {}

SettingsConversions == [preset : {"hap", "h264-mp4"}, resolution : {"full"}, framerate : {IntV(30)}, filename_suffix : {<<>>}]

\* The presets the menus are run on
SettingsPresets == {"hap", "h264-mp4"}

\* Answers at the global CRF prompt: the numbers, and 0 for a blank
GlobalCrfInputs == CrfInputs \cup {0}

NoInitials == {""}

AllFramesExist == {{1, 2}}

FullScale == {FloatV("1.0")}

DefaultFramerate == {IntV(30)}

NextSettings ==
    \/ _configure_multi_output(SettingsConversions, NoInitials, ChunkInputs)
    \/ _configure_individual_preset(SettingsPresets, CrfInputs, ChunkInputs)
    \/ _configure_global_overrides(GlobalCrfInputs, ChunkInputs)
    \/ set_ffmpeg_encoding_settings(CrfInputs)
    \/ encode_multi_output(EncodeSequences, EncodeMovies, AllFramesExist, StoredConversions, NoInitials, {get_hap_chunk_count(instance)})
    \/ encode_with_preset(EncodeSequences, EncodeMovies, AllFramesExist, SettingsPresets)
    \/ convert_sequences_in_directory(EncodeSequences, AllFramesExist, FullScale, {get_ffmpeg_crf(instance)}, DefaultFramerate)
    \/ ReportOutcome

SpecSettings == Init /\ [][NextSettings]_vars

(***************************************************************************)
(* The three converters called directly, from get_config() to the spawn    *)
(***************************************************************************)
\* An exception that leaves the converter
Raised(exc) ==
    [status |-> "raised", message |-> exc, cmd |-> <<>>, output_path |-> "",
     pattern |-> <<>>, start_number |-> 0, first_frame |-> <<>>]

\* get_config(): the instance there is, or Config()
get_config(outcome) ==
    IF instance.made THEN [raised |-> "", instance |-> instance, file |-> settings_file]
    ELSE Construct(settings_file, presets_file, outcome)

\* convert_sequence_with_preset called by a program: get_config() stands before the try
CallConvertSequenceWithPreset(sequences, existings, keys, directories) ==
    /\ Idle
    /\ run.phase = "none"
    /\ \E seq \in sequences, ex \in existings, preset_key \in keys, sequence_directory \in directories, outcome \in WriteOutcomes :
          LET config == get_config(outcome)
              args == [DefaultArgs EXCEPT !.members = seq.members, !.existing = ex, !.preset_key = preset_key]
          IN  /\ instance' = config.instance
              /\ settings_file' = config.file
              /\ conv' = Call("convert_sequence_with_preset", "caller", args,
                              IF config.raised # "" THEN Raised(config.raised)
                              ELSE convert_sequence_with_preset(seq, ex, preset_key, sequence_directory, NullV, NullV, <<>>, "", IntV(1)))
    /\ UNCHANGED <<preset_overrides, global_overrides, ffmpeg_path, effective, directory, found, run, presets_file, store_op, batch, renaming>>

\* convert_movie_with_preset called by a program: get_config() stands before the try
CallConvertMovieWithPreset(movies, keys) ==
    /\ Idle
    /\ run.phase = "none"
    /\ \E movie \in movies, movie_exists \in BOOLEAN, preset_key \in keys, outcome \in WriteOutcomes :
          LET config == get_config(outcome)
              args == [DefaultArgs EXCEPT !.kind = "movie", !.members = <<movie>>, !.preset_key = preset_key]
          IN  /\ instance' = config.instance
              /\ settings_file' = config.file
              /\ conv' = Call("convert_movie_with_preset", "caller", args,
                              IF config.raised # "" THEN Raised(config.raised)
                              ELSE convert_movie_with_preset(movie, movie_exists, preset_key, NullV, NullV, <<>>, "", IntV(1)))
    /\ UNCHANGED <<preset_overrides, global_overrides, ffmpeg_path, effective, directory, found, run, presets_file, store_op, batch, renaming>>

\* convert_sequence_to_video called by a program: the whole body is in the try, the
\* get_config() of build_ffmpeg_command included
CallConvertSequenceToVideo(sequences, existings, directories) ==
    /\ Idle
    /\ run.phase = "none"
    /\ \E seq \in sequences, ex \in existings, sequence_directory \in directories, outcome \in WriteOutcomes :
          LET config == IF sequence_directory = "" THEN [raised |-> "", instance |-> instance, file |-> settings_file] ELSE get_config(outcome)
              args == [DefaultArgs EXCEPT !.members = seq.members, !.existing = ex]
          IN  /\ instance' = config.instance
              /\ settings_file' = config.file
              /\ conv' = Call("convert_sequence_to_video", "caller", args,
                              IF config.raised # "" THEN Failed("Error converting sequence: " \o config.raised)
                              ELSE convert_sequence_to_video(seq, ex, sequence_directory, FloatV("1.0"), IntV(23), "medium", "yuv420p", NullV))
    /\ UNCHANGED <<preset_overrides, global_overrides, ffmpeg_path, effective, directory, found, run, presets_file, store_op, batch, renaming>>

\* subprocess.Popen(cmd, ...) starts the encoder
Popen ==
    /\ conv.called
    /\ conv.out.status = "launched"
    /\ Launch({conv.fn}, {<<Write("stderr", ErrorLine)>>}, ExitCodes)

\* subprocess.Popen raises OSError, caught by except Exception
PopenFails ==
    /\ conv.called
    /\ conv.out.status = "launched"
    /\ run.phase = "none"
    /\ conv' = [conv EXCEPT !.out = Failed("Error converting: [Errno 2] No such file or directory")]
    /\ UNCHANGED <<preset_overrides, global_overrides, ffmpeg_path, effective, directory, found, run, settings_file, presets_file, instance, store_op, batch, renaming>>

\* The caller has the (False, message), or the exception
CallEnds ==
    /\ conv.called
    /\ conv.out.status # "launched"
    /\ ReportOutcome

\* The caller has the result of the run
CallReturns ==
    /\ conv.called
    /\ conv.out.status = "launched"
    /\ run.phase = "run"
    /\ run.main = "returned"
    /\ run.child = "exited"
    /\ run.stdout_thread = "finished"
    /\ run.stderr_thread = "finished"
    /\ run' = NoRun
    /\ conv' = NoConv
    /\ UNCHANGED <<preset_overrides, global_overrides, ffmpeg_path, effective, directory, found, settings_file, presets_file, instance, store_op, batch, renaming>>

CallDirectories == {SeqDir, ""}

CallKeys == {DefaultPreset, "no-such-preset"}

NextCall ==
    \/ DamageSettingsFile
    \/ ResetConfig
    \/ GetConfig
    \/ CallConvertSequenceWithPreset(EncodeSequences, EncodeExistings, CallKeys, CallDirectories)
    \/ CallConvertMovieWithPreset(EncodeMovies, CallKeys)
    \/ CallConvertSequenceToVideo(EncodeSequences, EncodeExistings, CallDirectories)
    \/ Popen
    \/ PopenFails
    \/ ChildWrite
    \/ ChildExit
    \/ ReadStdout
    \/ ReadStderr
    \/ Wait
    \/ JoinStdout
    \/ JoinStderr
    \/ ReturnResult
    \/ CallEnds
    \/ CallReturns

SpecCall == Init /\ [][NextCall]_vars

(***************************************************************************)
(* The batch encodes (zilkit/menu/ffmpeg.py, convert_sequences_in_directory)*)
(***************************************************************************)
\* Config.get_default_preset
get_default_preset(self) == DictGet(self._config.d, "default_preset", NullV)

\* sorted(list(presets.items())), the keys
preset_list == <<"h264-mp4", "hap", "prores-4444">>

\* One conversion of one found item, as the loops come to it
JobFor(dir, kind, item, index, preset_key, resolution_scale, framerate, custom_text, user_initials, hap_chunk_count) ==
    [dir |-> dir, kind |-> kind, item |-> item, index |-> index, preset_key |-> preset_key,
     resolution_scale |-> resolution_scale, framerate |-> framerate, custom_text |-> custom_text,
     user_initials |-> user_initials, hap_chunk_count |-> hap_chunk_count]

\* The found items in the order of the loops: the sequences, then the movies
Items(find) ==
    [i \in 1..Len(find.sequences) |-> [kind |-> "sequence", item |-> find.sequences[i]]]
    \o [i \in 1..Len(find.movies) |-> [kind |-> "movie", item |-> find.movies[i]]]

\* for seq in sequences: ...; for movie in movies: ... with one preset and no further argument
PresetJobs(dir, find, preset_key) ==
    [i \in 1..Len(Items(find)) |->
        JobFor(dir, Items(find)[i].kind, Items(find)[i].item, 1, preset_key, NullV, NullV, <<>>, "", IntV(1))]

\* conversion.get("preset")
ConversionPreset(conversion) == IF "preset" \in DOMAIN conversion THEN conversion.preset ELSE ""

\* for item: for conv_idx, conversion in enumerate(conversions, 1): ...
MultiJobs(dir, find, multi_config) ==
    LET conversions == multi_config.conversions
        n == Len(conversions)
    IN  [k \in 1..(Len(Items(find)) * n) |->
            LET it == Items(find)[((k - 1) \div n) + 1]
                conv_idx == ((k - 1) % n) + 1
                conversion == conversions[conv_idx]
                preset_key == ConversionPreset(conversion)
            IN  JobFor(dir, it.kind, it.item, conv_idx, preset_key,
                       _get_resolution_scale(conversion.resolution), conversion.framerate,
                       conversion.filename_suffix, multi_config.user_initials,
                       IF DictGet(get_preset(preset_key), "codec", NullV) = StrV("hap")
                       THEN multi_config.hap_chunk_count ELSE IntV(1))]

\* The loop of convert_sequences_in_directory: the sequences only, the stored settings
LegacyJobs(dir, find, crf) ==
    [i \in 1..Len(find.sequences) |->
        [crf |-> crf] @@ JobFor(dir, "sequence_to_video", find.sequences[i], 1, "", FloatV("1.0"), IntV(30), <<>>, "", IntV(1))]

\* A batch at its first conversion
Started(entry, choice, preset_idx, jobs, existing) ==
    [phase |-> "run", entry |-> entry, choice |-> choice, preset_idx |-> preset_idx, jobs |-> jobs,
     existing |-> existing, next |-> 1, attempts |-> <<>>, success_count |-> 0, failure_count |-> 0,
     failed |-> <<>>, raised |-> ""]

BatchIdle == batch.phase = "none"

\* encode_default
StartEncodeDefault(finds, existings) ==
    /\ BatchIdle
    /\ is_ffmpeg_available
    /\ Truthy(get_default_preset(instance))
    /\ get_preset(PyStr(get_default_preset(instance))) # EmptyDict
    /\ \E find \in finds, existing \in existings :
          batch' = Started("encode_default", "", 0, PresetJobs(SeqDir, find, PyStr(get_default_preset(instance))), existing)
    /\ UNCHANGED <<oldVars, settings_file, presets_file, instance, store_op, renaming>>

\* encode_with_preset
StartEncodeWithPreset(finds, existings, keys) ==
    /\ BatchIdle
    /\ is_ffmpeg_available
    /\ \E find \in finds, existing \in existings, preset_key \in keys :
          /\ get_preset(preset_key) # EmptyDict
          /\ batch' = Started("encode_with_preset", "", 0, PresetJobs(SeqDir, find, preset_key), existing)
    /\ UNCHANGED <<oldVars, settings_file, presets_file, instance, store_op, renaming>>

\* encode_multi_output
StartEncodeMultiOutput(finds, existings, multi_configs) ==
    /\ BatchIdle
    /\ is_ffmpeg_available
    /\ \E find \in finds, existing \in existings, multi_config \in multi_configs :
          /\ multi_config.conversions # <<>>
          /\ batch' = Started("encode_multi_output", "", 0, MultiJobs(SeqDir, find, multi_config), existing)
    /\ UNCHANGED <<oldVars, settings_file, presets_file, instance, store_op, renaming>>

\* convert_sequences_in_directory(directory)
StartConvertSequencesInDirectory(finds, existings) ==
    /\ BatchIdle
    /\ \E find \in finds, existing \in existings :
          /\ find.sequences # <<>>
          /\ batch' = Started("convert_sequences_in_directory", "", 0, LegacyJobs(SeqDir, find, get_ffmpeg_crf(instance)), existing)
    /\ UNCHANGED <<oldVars, settings_file, presets_file, instance, store_op, renaming>>

\* The jobs of the directories, each with the preset selected for it ("" for none)
RecursiveJobs(dirs, selected) ==
    IF Len(dirs) = 1 THEN PresetJobs(dirs[1].dir, dirs[1].find, selected[1])
    ELSE PresetJobs(dirs[1].dir, dirs[1].find, selected[1]) \o PresetJobs(dirs[2].dir, dirs[2].find, selected[2])

\* choice "2": the preset of the number typed, else the default preset if there is one
SelectedFor(preset_idx, default_preset) ==
    IF 1 <= preset_idx /\ preset_idx <= Len(preset_list) THEN preset_list[preset_idx]
    ELSE IF Truthy(default_preset) THEN PyStr(default_preset) ELSE ""

\* encode_recursive_interactive, choice "1": the for ... else after the range test runs
\* its else branch when the loop ends, and the loop reads selected_key, which is bound
\* only if the number was in range
RecursiveSamePreset(dirs, existing, preset_idx) ==
    LET in_range == 1 <= preset_idx /\ preset_idx <= Len(preset_list)
        selected_key == IF in_range THEN preset_list[preset_idx] ELSE ""
        started == Started("encode_recursive_interactive", "1", preset_idx, RecursiveJobs(dirs, <<selected_key, selected_key>>), existing)
    IN  IF in_range THEN [started EXCEPT !.phase = "invalid_selection"]
        ELSE [started EXCEPT !.phase = "raised", !.raised = "UnboundLocalError"]

\* encode_recursive_interactive to the first conversion
StartEncodeRecursiveInteractive(dir_lists, existings, choices, numbers) ==
    /\ BatchIdle
    /\ is_ffmpeg_available
    /\ \E dirs \in dir_lists, existing \in existings, choice \in choices, first \in numbers, second \in numbers :
          LET default_preset == get_default_preset(instance)
          IN  \/ /\ choice = "1"
                 /\ first = second
                 /\ batch' = RecursiveSamePreset(dirs, existing, first)
              \/ /\ choice = "2"
                 /\ batch' = Started("encode_recursive_interactive", "2", first,
                                     RecursiveJobs(dirs, <<SelectedFor(first, default_preset), SelectedFor(second, default_preset)>>), existing)
              \/ /\ choice = "3"
                 /\ first = second
                 /\ Truthy(default_preset)
                 /\ batch' = Started("encode_recursive_interactive", "3", first,
                                     RecursiveJobs(dirs, <<PyStr(default_preset), PyStr(default_preset)>>), existing)
    /\ UNCHANGED <<oldVars, settings_file, presets_file, instance, store_op, renaming>>

\* What the converter of a job returns, to the spawn
Converted(job, existing) ==
    IF job.kind = "sequence"
    THEN convert_sequence_with_preset(job.item, existing, job.preset_key, job.dir, job.resolution_scale, job.framerate, job.custom_text, job.user_initials, job.hap_chunk_count)
    ELSE IF job.kind = "movie"
    THEN convert_movie_with_preset(job.item, 1 \in existing, job.preset_key, job.resolution_scale, job.framerate, job.custom_text, job.user_initials, job.hap_chunk_count)
    ELSE convert_sequence_to_video(job.item, existing, job.dir, job.resolution_scale, job.crf, "medium", "yuv420p", job.framerate)

\* success_count += 1, or failure_count += 1 and, where the batch keeps one, the entry
\* of the failure list
Tallied(b, attempt) ==
    [b EXCEPT !.next = @ + 1,
              !.attempts = Append(@, attempt),
              !.success_count = IF attempt.success THEN @ + 1 ELSE @,
              !.failure_count = IF attempt.success THEN @ ELSE @ + 1,
              !.failed = IF attempt.success \/ b.entry = "convert_sequences_in_directory" THEN @ ELSE Append(@, attempt.job)]

\* Preset not found in encode_multi_output: counted and listed, no converter called
CountedUnattempted(b) ==
    [b EXCEPT !.next = @ + 1, !.failure_count = @ + 1, !.failed = Append(@, b.next)]

\* One turn of the conversion loop: the converter runs to its end, the encoder leaving
\* with exit code `code` if it was started
Attempt ==
    /\ batch.phase = "run"
    /\ batch.next <= Len(batch.jobs)
    /\ \E code \in ExitCodes :
          LET job == batch.jobs[batch.next]
              needs_preset == job.kind # "sequence_to_video"
              out == Converted(job, batch.existing)
              attempt == [job |-> batch.next, launched |-> out.status = "launched", output_path |-> out.output_path,
                          success |-> out.status = "launched" /\ code = 0]
          IN  batch' = IF needs_preset /\ job.preset_key = "" THEN [batch EXCEPT !.next = @ + 1]
                       ELSE IF needs_preset /\ get_preset(job.preset_key) = EmptyDict /\ batch.entry = "encode_multi_output"
                       THEN CountedUnattempted(batch)
                       ELSE IF needs_preset /\ get_preset(job.preset_key) = EmptyDict /\ batch.entry = "encode_recursive_interactive"
                       THEN [batch EXCEPT !.phase = "raised", !.raised = "AttributeError"]
                       ELSE Tallied(batch, attempt)
    /\ UNCHANGED <<oldVars, settings_file, presets_file, instance, store_op, renaming>>

\* The loops are over: the totals are printed
Summarise ==
    /\ batch.phase = "run"
    /\ batch.next > Len(batch.jobs)
    /\ batch' = [batch EXCEPT !.phase = "done"]
    /\ UNCHANGED <<oldVars, settings_file, presets_file, instance, store_op, renaming>>

\* The menu function has returned, or its exception has ended the program
CloseBatch ==
    /\ batch.phase \in {"done", "invalid_selection", "raised"}
    /\ batch' = NoBatch
    /\ UNCHANGED <<oldVars, settings_file, presets_file, instance, store_op, renaming>>

\* File names of the batches
FrameA1p == <<"a", "_", "0", "1", ".", "p">>

FrameA1q == <<"a", "_", "0", "1", ".", "q">>

FrameS1p == <<"s", "_", "0", "1", ".", "p">>

MovieA == <<"a", ".", "m", "o", "v">>

MovieAh264 == <<"a", "_", "h", "2", "6", "4", ".", "m", "p", "4">>

SequenceFrom(first) == CHOOSE seq \in SequencesOf({first}) : TRUE

\* What the two scans of a directory found
Finds ==
    {[sequences |-> <<SequenceFrom(FrameA1p), SequenceFrom(FrameA1q)>>, movies |-> <<>>],
     [sequences |-> <<SequenceFrom(FrameS1p)>>, movies |-> <<MovieA>>],
     [sequences |-> <<>>, movies |-> <<MovieA, MovieAh264>>]}

\* directories_with_items
DirectoryLists ==
    {<<[dir |-> SeqDir, find |-> [sequences |-> <<SequenceFrom(FrameS1p)>>, movies |-> <<MovieA>>]]>>,
     <<[dir |-> SeqDir, find |-> [sequences |-> <<SequenceFrom(FrameA1p)>>, movies |-> <<>>]],
       [dir |-> SeqDir \o "/b", find |-> [sequences |-> <<>>, movies |-> <<MovieA>>]]>>}

ConversionOf(preset_key, resolution) == [preset |-> preset_key, resolution |-> resolution, framerate |-> IntV(30), filename_suffix |-> <<>>]

\* Stored multi-output configurations: two sizes of one preset, two presets, a preset
\* the catalog does not have, and an entry without "preset"
MultiConfigs ==
    {[user_initials |-> "", hap_chunk_count |-> IntV(1), conversions |-> <<ConversionOf("h264-mp4", "full"), ConversionOf("h264-mp4", "half")>>],
     [user_initials |-> "JP", hap_chunk_count |-> IntV(4), conversions |-> <<ConversionOf("h264-mp4", "full"), ConversionOf("hap", "full")>>],
     [user_initials |-> "", hap_chunk_count |-> IntV(1), conversions |-> <<ConversionOf("no-such-preset", "full")>>],
     [user_initials |-> "", hap_chunk_count |-> IntV(1), conversions |-> <<[resolution |-> "full", framerate |-> IntV(30), filename_suffix |-> <<>>], ConversionOf("h264-mp4", "full")>>]}

PresetNumbers == {0, 1, 3, 4}

RecursiveChoices == {"1", "2", "3"}

DefaultPresetKeys == {"default_preset"}

DefaultPresetValues == {StrV(""), StrV("h264-mp4")}

WritesThrough == {"ok"}

\* The default preset is set, or emptied, between two batches
SetDefaultPreset ==
    /\ BatchIdle
    /\ ConfigSetOf(DefaultPresetKeys, DefaultPresetValues, WritesThrough)

NextBatch ==
    \/ SetDefaultPreset
    \/ StartEncodeDefault(Finds, EncodeExistings)
    \/ StartEncodeWithPreset(Finds, EncodeExistings, PresetKeys)
    \/ StartEncodeMultiOutput(Finds, EncodeExistings, MultiConfigs)
    \/ StartConvertSequencesInDirectory(Finds, EncodeExistings)
    \/ StartEncodeRecursiveInteractive(DirectoryLists, EncodeExistings, RecursiveChoices, PresetNumbers)
    \/ Attempt
    \/ Summarise
    \/ CloseBatch

SpecBatch == Init /\ [][NextBatch]_vars

(***************************************************************************)
(* remove_frame_padding (zilkit/menu/utilities.py).  The entries of the    *)
(* directory are regular files and directories.                            *)
(***************************************************************************)
\* if counter > 1000: raise ValueError
ConflictLimit == 1000

\* The name of the directory worked in
DirName == <<"d">>

\* _extract_frame_number_info(filename)[0]: the stem has a digit run
HasFrameNumber(filename) == DigitRuns(PathStem(filename)) # {}

\* _extract_frame_number_info(filename)[3]: the last digit run of the stem taken out
NewName(filename) ==
    LET stem == PathStem(filename)
        last_match == LastRun(stem)
    IN  IF DigitRuns(stem) = {} THEN filename
        ELSE SubSeq(stem, 1, last_match[1] - 1) \o SubSeq(stem, last_match[2] + 1, Len(stem)) \o PathSuffix(filename)

\* (directory / name).exists(); directory / "" is the directory
Exists(entries, name) == name = <<>> \/ name \in DOMAIN entries

\* f"{base_name}_{counter}{suffix}"
ConflictName(base_name, suffix, counter) == base_name \o <<"_">> \o DecimalChars(counter) \o suffix

\* A conflict handling that takes the de-numbered name whether or not it exists
TargetUnchecked(entries, new_name) == [ok |-> TRUE, name |-> new_name]

\* The target of one rename: new_name if nothing has it, else the first of
\* base_1, base_2, ... that nothing has; ValueError once counter passes the limit.
\* Among the first n + 1 of these names one is free when the directory has n entries,
\* so the loop never tries more of them than that.
Target(entries, new_name) ==
    LET new_path == IF new_name = <<>> THEN DirName ELSE new_name
        base_name == PathStem(new_path)
        suffix == PathSuffix(new_path)
        tried == IF Cardinality(DOMAIN entries) + 1 < ConflictLimit - 1 THEN Cardinality(DOMAIN entries) + 1 ELSE ConflictLimit - 1
        free == {counter \in 1..tried : ~Exists(entries, ConflictName(base_name, suffix, counter))}
    IN  IF ~Exists(entries, new_name) THEN [ok |-> TRUE, name |-> new_name]
        ELSE IF free = {} THEN [ok |-> FALSE, name |-> <<>>]
        ELSE [ok |-> TRUE, name |-> ConflictName(base_name, suffix, CHOOSE k \in free : \A j \in free : k <= j)]

\* The files of a directory
FilesOf(entries) == {n \in DOMAIN entries : entries[n] = "file"}

\* files_to_rename: of all_files, in the order of the listing, those with a frame number
FilesToRename(all_files) == SelectSeq(all_files, HasFrameNumber)

RenameIdle == renaming.phase = "none"

\* Something outside the program puts a file or a directory in the directory
PutEntry(names, kinds, limit) ==
    /\ RenameIdle
    /\ Cardinality(DOMAIN directory.entries) < limit
    /\ \E name \in names \ DOMAIN directory.entries, kind \in kinds :
          directory' = [directory EXCEPT !.entries =
              [n \in DOMAIN directory.entries \cup {name} |-> IF n = name THEN kind ELSE directory.entries[n]]]
    /\ UNCHANGED <<preset_overrides, global_overrides, ffmpeg_path, effective, conv, found, run, settings_file, presets_file, instance, store_op, batch, renaming>>

\* remove_frame_padding to the confirmation, answered yes
StartRemoveFramePadding ==
    /\ RenameIdle
    /\ directory.listable
    /\ \E all_files \in Orders(FilesOf(directory.entries)) :
          /\ FilesToRename(all_files) # <<>>
          /\ renaming' = [phase |-> "run", files_to_rename |-> FilesToRename(all_files), next |-> 1,
                          success_count |-> 0, failure_count |-> 0, renamed_files |-> <<>>,
                          before |-> directory.entries]
    /\ UNCHANGED <<preset_overrides, global_overrides, ffmpeg_path, effective, conv, directory, found, run, settings_file, presets_file, instance, store_op, batch>>

\* One turn of the rename loop; file_path.rename may raise OSError
RenameNext ==
    /\ renaming.phase = "run"
    /\ renaming.next <= Len(renaming.files_to_rename)
    /\ \E renames \in BOOLEAN :
          LET file_name == renaming.files_to_rename[renaming.next]
              target == Target(directory.entries, NewName(file_name))
              entries == directory.entries
          IN  IF target.ok /\ renames
              THEN /\ directory' = [directory EXCEPT !.entries =
                          [n \in (DOMAIN entries \ {file_name}) \cup {target.name} |-> IF n = target.name THEN "file" ELSE entries[n]]]
                   /\ renaming' = [renaming EXCEPT !.next = @ + 1, !.success_count = @ + 1,
                                       !.renamed_files = Append(@, [old_name |-> file_name, new_name |-> target.name,
                                                                    existed |-> Exists(entries, target.name)])]
              ELSE /\ directory' = directory
                   /\ renaming' = [renaming EXCEPT !.next = @ + 1, !.failure_count = @ + 1]
    /\ UNCHANGED <<preset_overrides, global_overrides, ffmpeg_path, effective, conv, found, run, settings_file, presets_file, instance, store_op, batch>>

\* The loop is over: the results are printed
ShowResults ==
    /\ renaming.phase = "run"
    /\ renaming.next > Len(renaming.files_to_rename)
    /\ renaming' = [renaming EXCEPT !.phase = "done"]
    /\ UNCHANGED <<preset_overrides, global_overrides, ffmpeg_path, effective, conv, directory, found, run, settings_file, presets_file, instance, store_op, batch>>

\* remove_frame_padding has returned
CloseRenaming ==
    /\ renaming.phase = "done"
    /\ renaming' = NoRenaming
    /\ UNCHANGED <<preset_overrides, global_overrides, ffmpeg_path, effective, conv, directory, found, run, settings_file, presets_file, instance, store_op, batch>>

\* File names of the directory: frames of one shot, the names they lose their number
\* to, a name of digits only and one without digits
RenameNames ==
    {<<"a", "1", ".", "p">>, <<"a", "2", ".", "p">>, <<"a", "3", ".", "p">>, <<"a", ".", "p">>,
     <<"a", "_", "1", ".", "p">>, <<"0", "1">>, <<"b", ".", "p">>}

MaxFiles == 3

RenameKinds == {"file", "dir"}

NextRename ==
    \/ PutEntry(RenameNames, RenameKinds, MaxFiles)
    \/ StartRemoveFramePadding
    \/ RenameNext
    \/ ShowResults
    \/ CloseRenaming

SpecRename == Init /\ [][NextRename]_vars

(***************************************************************************)
(* Claims about failures before the encoder is launched                    *)
(***************************************************************************)
\* C11 (as stated): a sequence conversion, on either path, whose first
\* frame's stem holds no digit run ends as a failure without an encoder argv
\* being launched; no default pattern is put in its place.
C11_NoDigitRunFails ==
    (conv.called
        /\ conv.fn \in {"convert_sequence_with_preset", "convert_sequence_to_video"}
        /\ DigitRuns(PathStem(conv.args.members[1])) = {}) =>
    (conv.out.status = "failed" /\ conv.out.cmd = <<>>)

(***************************************************************************)
(* Claims about directory scans                                            *)
(***************************************************************************)
\* The names of a returned collection
Range(f) == {f[i] : i \in DOMAIN f}

\* The candidate groups of the scanned directory
Candidates == get_sequences(DOMAIN directory.entries)

\* C12: find_image_sequences never returns a sequence of fewer than 2 members:
\* a group of one file is not among the result, and a directory holding only
\* such groups gives the empty list.
C12_AtLeastTwoMembers ==
    found.sequences.done =>
        /\ \A s \in Range(found.sequences.value) : Len(s.members) >= 2
        /\ \A c \in Candidates : Len(c.members) = 1 => c \notin Range(found.sequences.value)
        /\ (\A c \in Candidates : Len(c.members) = 1) => found.sequences.value = <<>>

\* A listable directory of two regular files that do not group was scanned
C12_Witness ==
    /\ found.sequences.done
    /\ directory.listable
    /\ Cardinality(Candidates) = 2
    /\ \A c \in Candidates : Len(c.members) = 1 /\ ~ExcludedExtension(c) /\ directory.entries[c.members[1]] = "file"
    /\ found.sequences.value = <<>>

\* C13: every member of every returned sequence is a regular file of the
\* scanned directory, and a candidate group with a member that is not one is
\* dropped whole: no returned sequence is made of members of such a group.
C13_MembersAreFiles ==
    found.sequences.done =>
        /\ \A s \in Range(found.sequences.value) : \A m \in Range(s.members) : directory.entries[m] = "file"
        /\ \A c \in Candidates :
              (\E m \in Range(c.members) : directory.entries[m] # "file") =>
                  \A s \in Range(found.sequences.value) : ~(Range(s.members) \subseteq Range(c.members))

\* A group of three with two regular files and a later member that is a
\* directory was scanned, and nothing of it was returned
C13_Witness ==
    /\ found.sequences.done
    /\ directory.listable
    /\ \E c \in Candidates :
          /\ Len(c.members) = 3
          /\ ~ExcludedExtension(c)
          /\ directory.entries[c.members[1]] = "file"
          /\ directory.entries[c.members[2]] = "file"
          /\ directory.entries[c.members[3]] = "dir"
          /\ \A s \in Range(found.sequences.value) : ~(Range(s.members) \subseteq Range(c.members))

\* C14 (as stated): for one state of the directory no file is both a member of
\* a sequence that find_image_sequences returned and an element of what
\* find_movie_files returned.
C14_SequencesAndMoviesDisjoint ==
    (found.sequences.done /\ found.movies.done) =>
        \A s \in Range(found.sequences.value) : Range(s.members) \cap Range(found.movies.value) = {}

\* An error is met by the scan for sequences: the listing fails, or a group
\* that is not skipped for its extension has a member whose stat fails before
\* any member that is not a file
SequenceScanErrs ==
    \/ ~directory.listable
    \/ \E c \in Candidates : ~ExcludedExtension(c) /\ FirstNonFile(directory, c) # 0
                                /\ directory.entries[c.members[FirstNonFile(directory, c)]] = "fault"

\* An error is met by the scan for movies: the listing fails or an entry's stat does
MovieScanErrs ==
    \/ ~directory.listable
    \/ \E n \in DOMAIN directory.entries : directory.entries[n] = "fault"

\* C15 (as stated): a scan that meets an I/O or permission error, at whatever
\* point, returns the empty list, entries accepted before the error included.
C15_ErrorGivesEmptyList ==
    /\ (found.sequences.done /\ SequenceScanErrs) => found.sequences.value = <<>>
    /\ (found.movies.done /\ MovieScanErrs) => found.movies.value = <<>>

(***************************************************************************)
(* Claims about the encoder's exit and its captured output                 *)
(***************************************************************************)
\* The conversion has returned on the exit code of a child that ran to its exit
Returned == run.phase = "run" /\ run.main = "returned"

\* C16: a conversion whose encoder ran to its exit returns success exactly
\* when the exit code is 0, whatever the child wrote.
C16_SuccessIffExitZero ==
    Returned => (run.result.success <=> run.returncode = 0)

\* An encoder that wrote an error line to stderr, which was captured, and
\* exited with 0: the conversion returned success
C16_Witness ==
    /\ Returned
    /\ run.returncode = 0
    /\ ErrorLine \in Range(run.stderr_lines)
    /\ run.result.success

IsStderrWrite(w) == w.stream = "stderr"

IsStdoutWrite(w) == w.stream = "stdout"

NonBlank(line) == rstrip(line) # <<>>

NotProgress(line) == ~is_progress(line)

\* The lines the child wrote, stripped, the blank ones left out
LinesWritten(writes) == SelectSeq([i \in 1..Len(writes) |-> rstrip(writes[i].line)], NonBlank)

\* The text after the fixed head of a failure message
Diagnostic == SubSeq(run.result.message, Len(FailedPrefix) + 1, Len(run.result.message))

IsPrefix(a, b) == Len(a) <= Len(b) /\ SubSeq(b, 1, Len(a)) = a

DiagnosticSources == {run.stderr_lines, run.output_lines, run.stderr_lines \o run.output_lines}

\* C17 (as stated): after a non-zero exit, both readers having read to the end
\* before the joins were over, the failure message carries text taken from at
\* most the last 20 captured lines and cut to at most 200 characters, and it
\* carries some of it whenever the child wrote a non-empty line to either
\* stream, in each of the three conversion functions.
C17_FailureCarriesOutput ==
    (Returned /\ run.returncode # 0 /\ ~run.timed_out) =>
        /\ IsPrefix(FailedPrefix, run.result.message)
        /\ Len(Diagnostic) <= MessageCut
        /\ \E lines \in DiagnosticSources : \E k \in 0..TailLines :
              /\ k <= Len(lines)
              /\ IsPrefix(Diagnostic, JoinLines(SubSeq(lines, Len(lines) - k + 1, Len(lines))))
        /\ LinesWritten(run.wrote) # <<>> => Diagnostic # <<>>

\* C18 (as stated): progress lines are not retained: once the stderr reader has
\* read to the end, the list the failure tail is taken from holds exactly the
\* non-progress lines in the order read, and so an error line followed by
\* fewer than 20 other non-progress lines is in the failure message however
\* many progress lines came after it.
C18_ProgressNotRetained ==
    (Returned /\ ~run.timed_out) =>
        /\ run.stderr_lines = SelectSeq(LinesWritten(SelectSeq(run.wrote, IsStderrWrite)), NotProgress)
        /\ (run.returncode # 0 /\ Write("stderr", ErrorLine) \in Range(run.wrote)
               /\ Len(SelectSeq(LinesWritten(run.wrote), NotProgress)) <= 2) =>
              Contains(run.result.message, ErrorLine)

\* C19 (as stated): control has not left the conversion function, by return or
\* by the propagating KeyboardInterrupt, while the child is alive.
C19_ChildDeadWhenControlLeaves ==
    (run.phase = "run" /\ run.main \in {"returned", "interrupted"}) => run.child # "running"

C21_ReadersDoneAtResult ==
    Returned =>
        /\ run.stdout_thread = "finished"
        /\ run.stderr_thread = "finished"
        /\ run.stdout = <<>>
        /\ run.stderr = <<>>
        /\ run.stderr_lines \o run.output_lines = LinesWritten(SelectSeq(run.wrote, IsStderrWrite)) \o LinesWritten(SelectSeq(run.wrote, IsStdoutWrite))

(***************************************************************************)
(* Claims about the settings store                                         *)
(***************************************************************************)
\* C25 (as stated): constructing a Config never raises because of what the
\* files hold; a settings file that is missing, unreadable or not valid JSON
\* leaves the settings empty, get(k, d) giving d for every key, and a catalog
\* that is missing or malformed leaves no preset, get_preset giving None for
\* every key.
C25_ConstructionNeverRaises ==
    store_op.op = "construct" =>
        /\ store_op.raised = ""
        /\ store_op.settings_kind \in {"missing", "unreadable", "garbled", "bad_utf8"} =>
              \A k \in SettingKeys : Get(instance._config, k, StrV("d")).value = StrV("d")
        /\ store_op.presets_kind \in {"missing", "garbled", "bad_utf8", "array"} =>
              \A k \in PresetKeys : GetPreset(instance, k) = EmptyDict

\* A new Config on the files as they are now
Reloaded == Construct(settings_file, presets_file, "denied")

\* get(k) of the new object equals get(k) of the one in memory
SameValue(k) == Get(Reloaded.instance._config, k, NullV) = Get(instance._config, k, NullV)

\* The constructor replaces a default_preset that is unset or empty by "h264-mp4"
DefaultPresetFilled(k) == k = "default_preset" /\ ~Truthy(Get(instance._config, k, NullV).value) /\ presets_file.kind = "object"

HasChunks == ArgvMade /\ Places(conv.out.cmd, "-chunks") # {}

\* C27 (as stated): every -chunks value of an argv built for a hap preset is
\* one of 1..8, whichever way the count was configured.
C27_ChunksInRange ==
    HasChunks => ValueOf(conv.out.cmd, "-chunks") \in {ToString(n) : n \in 1..8}

\* The crf values the store holds: preset overrides, global overrides, ffmpeg_crf
StoredCrfs ==
    {preset_overrides[p].crf : p \in {q \in DOMAIN preset_overrides : "crf" \in DOMAIN preset_overrides[q]}}
    \cup {global_overrides[k] : k \in DOMAIN global_overrides \cap {"crf"}}
    \cup {instance._config.d[k] : k \in DOMAIN instance._config.d \cap {"ffmpeg_crf"}}

\* C28 (as stated): every crf the store holds lies in 18..28, and the builder
\* never receives a crf outside that range from the store.
C28_StoredCrfInRange ==
    /\ \A crf \in StoredCrfs : crf.i \in 18..28
    /\ (conv.called /\ conv.fn = "convert_sequence_to_video") => conv.args.crf.i \in 18..28

(***************************************************************************)
(* Claims about the converters called directly                             *)
(***************************************************************************)
\* C22 (as stated): the three converters never raise to their caller; every
\* call that does not start the encoder ends in (False, message), and no
\* encoder process exists then.
C22_ConvertersNeverRaise ==
    (conv.called /\ conv.entry = "caller") =>
        /\ conv.out.status \in {"failed", "launched"}
        /\ conv.out.status = "failed" => run.phase = "none"

(***************************************************************************)
(* Claims about the batch encodes                                          *)
(***************************************************************************)
\* The batch function has come to its end
BatchEnded == batch.phase \in {"done", "invalid_selection"}

\* C23 (as stated): when a batch encode ends, every requested conversion of
\* every found item has been attempted exactly once, in the order of the
\* loops; the two counts add up to the number of requested conversions and
\* every failed conversion is in the failure list.
C23_EveryConversionAttemptedOnce ==
    BatchEnded =>
        /\ Len(batch.attempts) = Len(batch.jobs)
        /\ \A i \in 1..Len(batch.attempts) : batch.attempts[i].job = i
        /\ batch.success_count + batch.failure_count = Len(batch.jobs)
        /\ \A i \in 1..Len(batch.attempts) : ~batch.attempts[i].success => \E j \in 1..Len(batch.failed) : batch.failed[j] = i

\* The path of the input of a job, for a movie
InputPath(job) == PathJoin(job.dir, Str(job.item))

\* C24 (as stated): within one batch no two conversions that start the
\* encoder write to the same output path of one directory, and no output
\* path is the path of a movie the batch reads.
C24_OutputPathsDistinct ==
    batch.phase # "none" =>
        /\ \A i, j \in 1..Len(batch.attempts) :
              (i # j /\ batch.attempts[i].launched /\ batch.attempts[j].launched /\ batch.jobs[batch.attempts[i].job].dir = batch.jobs[batch.attempts[j].job].dir)
                  => batch.attempts[i].output_path # batch.attempts[j].output_path
        /\ \A i \in 1..Len(batch.attempts), k \in 1..Len(batch.jobs) :
              (batch.attempts[i].launched /\ batch.jobs[k].kind = "movie" /\ batch.jobs[k].dir = batch.jobs[batch.attempts[i].job].dir)
                  => batch.attempts[i].output_path # InputPath(batch.jobs[k])

\* C29 (as stated): with option 1 and a preset number in range the preset of
\* that number is the one of every job and the batch converts everything;
\* only a number out of range ends in the invalid-selection return.
C29_SamePresetForAll ==
    (batch.phase # "none" /\ batch.entry = "encode_recursive_interactive" /\ batch.choice = "1") =>
        IF batch.preset_idx \in 1..Len(preset_list)
        THEN /\ batch.phase \in {"run", "done"}
             /\ \A k \in 1..Len(batch.jobs) : batch.jobs[k].preset_key = preset_list[batch.preset_idx]
             /\ batch.phase = "done" => Len(batch.attempts) = Len(batch.jobs)
        ELSE batch.phase = "invalid_selection" /\ batch.attempts = <<>>

(***************************************************************************)
(* Claims about remove_frame_padding                                       *)
(***************************************************************************)
\* C30: while and after remove_frame_padding runs, every rename made went to
\* a name nothing had at the time, the directory holds as many files as
\* before and the same directories, and at the end success_count +
\* failure_count is the number of files selected; also when several frames
\* lose their number to one and the same name.
C30_NoFileOverwrittenOrLost ==
    renaming.phase # "none" =>
        /\ \A i \in 1..Len(renaming.renamed_files) : ~renaming.renamed_files[i].existed
        /\ Cardinality(FilesOf(directory.entries)) = Cardinality(FilesOf(renaming.before))
        /\ \A n \in DOMAIN renaming.before : renaming.before[n] = "dir" => (n \in DOMAIN directory.entries /\ directory.entries[n] = "dir")
        /\ renaming.phase = "done" => renaming.success_count + renaming.failure_count = Len(renaming.files_to_rename)

\* Three frames of one shot lost their number to one name: one took it, the others took
\* suffixed names, or one of them failed to rename
C30_Witness ==
    /\ renaming.phase = "done"
    /\ Len(renaming.files_to_rename) = 3
    /\ \A i \in 1..3 : NewName(renaming.files_to_rename[i]) = <<"a", ".", "p">>
    /\ renaming.success_count = 2
    /\ renaming.failure_count = 1
    /\ \E i \in 1..2 : renaming.renamed_files[i].new_name = <<"a", "_", "1", ".", "p">>

====
